---- MODULE Spec2Model ----
(***************************************************************************)
(* The task-orchestration loop of the supervisor agent system:             *)
(*   src/src/graph/workflow.py            the graph and its nodes          *)
(*   src/src/core/agents/supervisor.py    SupervisorAgent, supervisor_node *)
(*   src/src/core/tools/supervisor_tools.py  TodoManager, task_tool        *)
(*                                                                         *)
(* The external collaborator (the LLM agent executor and the subagent) is  *)
(* the environment: every delegation draws its response from a small set.  *)
(***************************************************************************)
EXTENDS Integers, Sequences, FiniteSets, TLC

(***************************************************************************)
(* Bounds of the model and constants of the program.                       *)
(***************************************************************************)

\* Most tasks the collaborator creates in one run.
MaxTasks == 2

\* A run is started with max_iterations in 1..MaxCfgIterations.
MaxCfgIterations == 4

\* Most tasks created on a ledger that is driven operation by operation.
MaxCreated == 2

\* Most names in the assigned_tools of one call of task_tool.
MaxAssignedTools == 2

\* Longest content written to the file system.
MaxContentLen == 2

\* Most steps (supervisor steps and task-executor steps) taken on one
\* session state.
MaxSessionSteps == 3

\* Most find/replace dicts in the edits of one call of edit_file.
MaxEdits == 2

\* src/src/core/state.py:159
MAX_ITERATIONS == 20

\* src/src/graph/workflow.py:51 (the default of create_initial_state)
DefaultMaxIterations == 20

\* src/run_graph.py:51
RunGraphMaxIterations == 25

\* Python's None for a task id; ids start at 1 and `if task_id:` treats both
\* None and 0 as absent.
None == 0

\* Task descriptions the collaborator may write into the ledger.
Descriptions == {"d1", "d2"}

Statuses == {"pending", "in_progress", "completed", "failed"}

\* Descriptions handed to the ledger's operations: a text and a blank one.
LedgerDescriptions == {"d1", ""}

\* Statuses handed to update_task_status: the valid ones and one that is not.
StatusInputs == Statuses \cup {"done"}

\* File paths the collaborator may write in the virtual file system.
Paths == {"data.txt"}

\* The max_iterations a run is started with.
RunMaxIterationsInputs == 1..MaxCfgIterations

\* The max_iterations of a state handed to decide_next_action or
\* should_continue.
MaxIterationsInputs ==
    RunMaxIterationsInputs \cup {DefaultMaxIterations, RunGraphMaxIterations}

VARIABLES
    pc,            \* the node of the graph that runs next
    state,         \* the AgentState dict that flows through the graph
    todo_manager,  \* the module-level TodoManager singleton
    files,         \* the paths held by the VirtualFileSystem singleton
    has_agent,     \* hasattr(supervisor_node, '_supervisor_agent')
    decision,      \* the decision of the last supervisor step
    last_exec,     \* the execution delegation of the last supervisor step
    executed,      \* ids of the tasks whose EXECUTE step has returned
    hist           \* what the collaborator has done so far in this run

vars == <<pc, state, todo_manager, files, has_agent, decision, last_exec,
          executed, hist>>

(***************************************************************************)
(* Sequence helpers.                                                       *)
(***************************************************************************)

\* Sequences over S of length at most n.
SeqsUpTo(S, n) == UNION {[1..k -> S] : k \in 0..n}

\* Index of the first task of s whose field has this value, 0 when there is
\* none (a for loop over the list that stops at the first match).
FirstIndex(s, field, value) ==
    IF \E i \in 1..Len(s) : s[i][field] = value
    THEN CHOOSE i \in 1..Len(s) :
            s[i][field] = value /\ \A j \in 1..(i - 1) : s[j][field] # value
    ELSE 0

IsPending(t) == t.status = "pending"

IsCompleted(t) == t.status = "completed"

IsFailed(t) == t.status = "failed"

(***************************************************************************)
(* TodoManager (the task ledger).                                          *)
(***************************************************************************)

RECURSIVE create_tasks(_, _)
\* TodoManager.create_tasks: one pending task per description that is not
\* blank ("" stands for a description that strip() empties), ids from
\* next_task_id on, appended in order.
create_tasks(tm, task_descriptions) ==
    IF task_descriptions = <<>> THEN tm
    ELSE IF Head(task_descriptions) = ""
    THEN create_tasks(tm, Tail(task_descriptions))
    ELSE create_tasks(
            [todo_list |-> Append(tm.todo_list,
                                  [id |-> tm.next_task_id,
                                   task |-> Head(task_descriptions),
                                   status |-> "pending",
                                   artifacts |-> {}]),
             next_task_id |-> tm.next_task_id + 1],
            Tail(task_descriptions))

\* add_task taking the id from the length of the list instead of from
\* next_task_id.
add_task_id_from_length(tm, description) ==
    [todo_list |-> Append(tm.todo_list,
                          [id |-> Len(tm.todo_list) + 1,
                           task |-> description,
                           status |-> "pending",
                           artifacts |-> {}]),
     next_task_id |-> tm.next_task_id + 1]

\* add_task putting the new task at the head of the list.
add_task_at_head(tm, description) ==
    [todo_list |-> <<[id |-> tm.next_task_id,
                      task |-> description,
                      status |-> "pending",
                      artifacts |-> {}]>> \o tm.todo_list,
     next_task_id |-> tm.next_task_id + 1]

\* TodoManager.add_task: one pending task with the id next_task_id, whatever
\* the description.
add_task(tm, description) ==
    [todo_list |-> Append(tm.todo_list,
                          [id |-> tm.next_task_id,
                           task |-> description,
                           status |-> "pending",
                           artifacts |-> {}]),
     next_task_id |-> tm.next_task_id + 1]

\* update_task_status that validates the status after writing it.
update_task_status_write_first(tm, task_id, new_status) ==
    LET i == FirstIndex(tm.todo_list, "id", task_id)
    IN  IF i = 0 THEN tm
        ELSE [tm EXCEPT !.todo_list[i].status = new_status]

\* Task texts whose tools are analysed: one that holds no keyword of
\* _analyze_task_tools and three that hold one ("research" holds "search",
\* "report" is a reading keyword, "calculate" a code keyword).
ToolTexts ==
    {"Task 1", "Research market trends", "Generate report",
     "Calculate the sum"}

\* The tools _analyze_task_tools finds from the keywords in the lower-cased
\* text, in the order it appends them.
KeywordTools(task_description) ==
    CASE task_description = "Research market trends" -> <<"search_internet">>
      [] task_description = "Generate report" -> <<"read_file">>
      [] task_description = "Calculate the sum" -> <<"execute_code">>
      [] OTHER -> <<>>

\* TodoManager._analyze_task_tools: the tools found from the keywords; the
\* default tools only when no keyword is found; write_file when there is no
\* default either (None or an empty list).
_analyze_task_tools(task_description, default_tools) ==
    LET tools == KeywordTools(task_description)
    IN  IF tools # <<>> THEN tools
        ELSE IF default_tools # <<>> THEN default_tools
        ELSE <<"write_file">>

\* TodoManager.update_task_status: a status outside Statuses raises
\* ValueError before anything is written; the first task with this id takes
\* the status; an unknown id changes nothing.
update_task_status(tm, task_id, new_status) ==
    LET i == FirstIndex(tm.todo_list, "id", task_id)
    IN  IF new_status \notin Statuses \/ i = 0 THEN tm
        ELSE [tm EXCEPT !.todo_list[i].status = new_status]

\* clear_completed_tasks that also sets next_task_id back to one above the
\* largest id that is left.
clear_completed_tasks_renumbering(tm) ==
    LET NotCompleted(t) == ~IsCompleted(t)
        left == SelectSeq(tm.todo_list, NotCompleted)
        ids == {left[i].id : i \in DOMAIN left}
    IN  [todo_list |-> left,
         next_task_id |-> IF ids = {} THEN 1
                          ELSE (CHOOSE m \in ids : \A n \in ids : n <= m) + 1]

\* TodoManager.clear_completed_tasks: the completed tasks leave the list;
\* next_task_id is not touched.
clear_completed_tasks(tm) ==
    LET NotCompleted(t) == ~IsCompleted(t)
    IN  [tm EXCEPT !.todo_list = SelectSeq(tm.todo_list, NotCompleted)]

\* TodoManager.update_task_with_artifacts: a status outside Statuses raises
\* ValueError before anything is written; the first task with this id takes
\* the new status and the artifacts; an unknown id changes nothing.  A task
\* that has no "artifacts" key yet reads as one with none.
update_task_with_artifacts(tm, task_id, new_status, artifacts) ==
    LET i == FirstIndex(tm.todo_list, "id", task_id)
    IN  IF new_status \notin Statuses \/ i = 0 THEN tm
        ELSE [tm EXCEPT !.todo_list[i].status = new_status,
                        !.todo_list[i].artifacts = artifacts]

\* What update_task_status and update_task_with_artifacts hand back: the
\* ValueError they raise, None for an unknown id, or the updated task.
UpdateReturns(tm, task_id, new_status) ==
    IF new_status \notin Statuses THEN "ValueError"
    ELSE IF FirstIndex(tm.todo_list, "id", task_id) = 0 THEN "None"
    ELSE "task"

\* Python's None for a status.
NoStatus == "None"

\* update_todo_tool, as (success, ledger).  task_description is the sequence
\* of the text's lines, <<>> for None or the empty string; add_new takes a
\* text of one line.  A ValueError of the ledger is caught and reported as
\* success = False.
update_todo_tool(tm, action, task_id, task_description, new_status) ==
    LET NotBlank(line) == line # ""
        task_descriptions == SelectSeq(task_description, NotBlank)
    IN  IF action = "create"
        THEN IF task_description = <<>> \/ task_descriptions = <<>>
             THEN [success |-> FALSE, todo_manager |-> tm]
             ELSE [success |-> TRUE,
                   todo_manager |-> create_tasks(tm, task_descriptions)]
        ELSE IF action = "add_new"
        THEN IF task_description = <<>>
             THEN [success |-> FALSE, todo_manager |-> tm]
             ELSE [success |-> TRUE,
                   todo_manager |-> add_task(tm, task_description[1])]
        ELSE IF action = "update_status"
        THEN IF task_id = None \/ new_status = NoStatus
             THEN [success |-> FALSE, todo_manager |-> tm]
             ELSE [success |-> UpdateReturns(tm, task_id, new_status) = "task",
                   todo_manager |->
                      update_task_status(tm, task_id, new_status)]
        ELSE [success |-> FALSE, todo_manager |-> tm]

\* task.get('result'): None ("") for a task that has no "result" key.
TaskResult(t) == IF "result" \in DOMAIN t THEN t.result ELSE ""

\* TodoManager.get_all_tasks
get_all_tasks(tm) == tm.todo_list

(***************************************************************************)
(* The external collaborator's answers.  One response covers everything a  *)
(* node may ask of the environment in one step:                            *)
(*   agent_ok  whether building the SupervisorAgent succeeds (API key set, *)
(*             _setup_agent does not raise);                               *)
(*   descs     the tasks a planning delegation writes through              *)
(*             update_todo_tool (zero or more);                            *)
(*   outcome   what task_tool did in an execution delegation: the subagent *)
(*             returned an output ("success") or none ("failure"), the     *)
(*             subagent's executor raised inside run_subagent ("error"),   *)
(*             or ("not_run") task_tool left the ledger alone: it returned *)
(*             at a validation check or through its except clause, or was  *)
(*             never reached;                                              *)
(*   writes    the paths the subagent wrote (created or overwrote);        *)
(*   deletes   the paths it deleted after that;                            *)
(*   raises    whether the supervisor's agent_executor.invoke raised.      *)
(***************************************************************************)

ExecOutcomes == {"success", "failure", "error", "not_run"}

\* The answers open to the collaborator in a step that delegates `action`:
\* a built agent is not built again, a planning delegation only plans, an
\* execution delegation only runs task_tool (a subagent that did not run
\* touched no file), and a finalize step delegates nothing.
Responses(tm, agent, action) ==
    LET agent_oks == IF agent THEN {TRUE} ELSE BOOLEAN
    IN  IF action = "finalize"
        THEN [agent_ok : agent_oks, descs : {<<>>}, outcome : {"not_run"},
              writes : {{}}, deletes : {{}}, raises : {FALSE}]
        ELSE IF action = "execute"
        THEN [agent_ok : agent_oks, descs : {<<>>},
              outcome : ExecOutcomes \ {"not_run"},
              writes : SUBSET Paths, deletes : SUBSET Paths,
              raises : BOOLEAN]
             \cup
             [agent_ok : agent_oks, descs : {<<>>}, outcome : {"not_run"},
              writes : {{}}, deletes : {{}}, raises : BOOLEAN]
        ELSE [agent_ok : agent_oks,
              descs : SeqsUpTo(Descriptions, MaxTasks - Len(tm.todo_list)),
              outcome : {"not_run"}, writes : {{}}, deletes : {{}},
              raises : BOOLEAN]

(***************************************************************************)
(* SubagentExecutor.run_subagent and supervisor_tools.task_tool            *)
(***************************************************************************)

\* run_subagent: the listing of the file system is taken before and after
\* the subagent's run and the artifacts are the difference; when the run
\* raises, the except clause reports no artifacts (it asks for a variable
\* artifact_tracker that the function never binds).
run_subagent(fs, resp) ==
    LET files_before == fs
        files_after  == (fs \cup resp.writes) \ resp.deletes
    IN  IF resp.outcome = "error"
        THEN [success |-> FALSE, artifacts_created |-> {},
              files |-> files_after]
        ELSE [success |-> resp.outcome = "success",
              artifacts_created |-> files_after \ files_before,
              files |-> files_after]

\* task_tool: runs the subagent, then the first task of the ledger whose
\* text equals task_description becomes completed or failed and takes the
\* artifacts.
task_tool(tm, fs, task_description, resp) ==
    IF resp.outcome = "not_run" THEN [todo_manager |-> tm, files |-> fs]
    ELSE
        LET subagent_result == run_subagent(fs, resp)
            all_tasks == get_all_tasks(tm)
            i == FirstIndex(all_tasks, "task", task_description)
        IN  [todo_manager |->
                IF i = 0 THEN tm
                ELSE update_task_with_artifacts(
                        tm, all_tasks[i].id,
                        IF subagent_result.success
                        THEN "completed" ELSE "failed",
                        subagent_result.artifacts_created),
             files |-> subagent_result.files]

\* get_assignable_tools() and get_file_tools(): the names of the registry.
AssignableTools == {"execute_code", "search_internet", "web_scrape"}

FileTools == {"read_file", "write_file", "edit_file"}

AvailableTools == AssignableTools \cup FileTools

\* The table task_tool corrects tool names with.
tool_name_corrections ==
    ("execute_code_tool" :> "execute_code")
    @@ ("search_internet_tool" :> "search_internet")
    @@ ("web_scrape_tool" :> "web_scrape")
    @@ ("read_file_tool" :> "read_file")
    @@ ("write_file_tool" :> "write_file")
    @@ ("edit_file_tool" :> "edit_file")

\* corrected_tools: every name that is in the table replaced by its entry.
CorrectedTools(assigned_tools) ==
    [i \in DOMAIN assigned_tools |->
        IF assigned_tools[i] \in DOMAIN tool_name_corrections
        THEN tool_name_corrections[assigned_tools[i]]
        ELSE assigned_tools[i]]

\* The "assigned_tools" of the task that create_tasks, add_task or
\* update_todo_tool (create, add_new) creates for one description:
\* update_todo_tool corrects the names first, all three then store what
\* _analyze_task_tools returns.
CreatedAssignedTools(entry, task_description, assigned_tools) ==
    _analyze_task_tools(
        task_description,
        IF entry = "update_todo_tool" THEN CorrectedTools(assigned_tools)
        ELSE assigned_tools)

\* An early return of task_tool: nothing is run and nothing is written.
\* available is the list of names the details end with (none unless the
\* details are about invalid tools).
TaskToolRefusal(details, invalid_tools, available, tm, fs) ==
    [success |-> FALSE, details |-> details, invalid_tools |-> invalid_tools,
     available |-> available, delegated |-> FALSE,
     todo_manager |-> tm, files |-> fs]

\* task_tool that checks the names as given, without correcting them first.
task_tool_call_no_correction(tm, fs, task_description, assigned_tools, success_criteria, resp) ==
    LET IsInvalid(tool) == tool \notin AvailableTools
        invalid_tools == SelectSeq(assigned_tools, IsInvalid)
        tt == task_tool(tm, fs, task_description, resp)
    IN  IF task_description = ""
        THEN TaskToolRefusal("task_description must be a non-empty string",
                             <<>>, {}, tm, fs)
        ELSE IF assigned_tools = <<>>
        THEN TaskToolRefusal("assigned_tools must be a non-empty list",
                             <<>>, {}, tm, fs)
        ELSE IF success_criteria = ""
        THEN TaskToolRefusal("success_criteria must be a non-empty string",
                             <<>>, {}, tm, fs)
        ELSE IF invalid_tools # <<>>
        THEN TaskToolRefusal("Invalid tools", invalid_tools, AvailableTools,
                             tm, fs)
        ELSE [success |-> resp.outcome = "success",
              details |-> "Used iterations", invalid_tools |-> <<>>,
              available |-> {}, delegated |-> TRUE,
              todo_manager |-> tt.todo_manager, files |-> tt.files]

\* task_tool, one whole call with its arguments checked: the early returns
\* on an empty description, an empty tool list or empty success criteria,
\* the correction of the tool names, the check of the corrected names
\* against the registry, and then the run of the subagent with the update
\* of the ledger (task_tool above).  resp is the subagent's run.
task_tool_call(tm, fs, task_description, assigned_tools, success_criteria, resp) ==
    LET IsInvalid(tool) == tool \notin AvailableTools
        invalid_tools == SelectSeq(CorrectedTools(assigned_tools), IsInvalid)
        tt == task_tool(tm, fs, task_description, resp)
    IN  IF task_description = ""
        THEN TaskToolRefusal("task_description must be a non-empty string",
                             <<>>, {}, tm, fs)
        ELSE IF assigned_tools = <<>>
        THEN TaskToolRefusal("assigned_tools must be a non-empty list",
                             <<>>, {}, tm, fs)
        ELSE IF success_criteria = ""
        THEN TaskToolRefusal("success_criteria must be a non-empty string",
                             <<>>, {}, tm, fs)
        ELSE IF invalid_tools # <<>>
        THEN TaskToolRefusal("Invalid tools", invalid_tools, AvailableTools,
                             tm, fs)
        ELSE [success |-> resp.outcome = "success",
              details |-> "Used iterations", invalid_tools |-> <<>>,
              available |-> {}, delegated |-> TRUE,
              todo_manager |-> tt.todo_manager, files |-> tt.files]

(***************************************************************************)
(* SupervisorAgent                                                         *)
(***************************************************************************)

NoDecision == [action |-> "none", next_task_id |-> None]

NoExec == [task_id |-> None, outcome |-> "none", raised |-> FALSE]

\* SupervisorAgent.decide_next_action
decide_next_action(st) ==
    LET todo_list == st.todo_list
        iteration_count == st.iteration_count
        pending_tasks == SelectSeq(todo_list, IsPending)
    IN  IF iteration_count >= MAX_ITERATIONS
        THEN [action |-> "finalize", next_task_id |-> None]
        ELSE IF Len(todo_list) = 0 /\ iteration_count = 1
        THEN [action |-> "plan", next_task_id |-> None]
        ELSE IF pending_tasks # <<>>
        THEN [action |-> "execute", next_task_id |-> pending_tasks[1].id]
        ELSE [action |-> "finalize", next_task_id |-> None]

\* SupervisorAgent._execute_finalize: a summary built from the state; it is
\* never empty, and it has a "### Failed Tasks:" section when the state's
\* todo_list holds a failed task.
_execute_finalize(st, tm, fs) ==
    [success |-> TRUE,
     result |-> IF SelectSeq(st.todo_list, IsFailed) # <<>>
                THEN "Task Execution Summary, Failed Tasks"
                ELSE "Task Execution Summary",
     todo_manager |-> tm, files |-> fs, exec |-> NoExec]

\* The "### Failed Tasks:" section that _execute_finalize writes into its
\* summary: of the texts a run can leave in final_result only that summary
\* names failed tasks (finalize_node's own summary names the completed tasks,
\* the fixed messages name none).
FailedTasksSection(final_result) ==
    final_result = "Task Execution Summary, Failed Tasks"

\* _build_task_context with <= for < in the test of the id.
_build_task_context_up_to_current(st, fs, current_task_id) ==
    LET Earlier(task) == IsCompleted(task) /\ task.id <= current_task_id
        earlier == SelectSeq(st.todo_list, Earlier)
    IN  [completed_tasks |->
            [i \in DOMAIN earlier |->
                [id |-> earlier[i].id, task |-> earlier[i].task,
                 artifacts |-> earlier[i].artifacts]],
         available_files |-> fs,
         objective |-> st.objective]

\* SupervisorAgent._build_task_context: of the state's todo_list, in its
\* order, the completed tasks with an id below current_task_id (their id,
\* text and artifacts), the listing of the file system, and the objective.
_build_task_context(st, fs, current_task_id) ==
    LET Earlier(task) == IsCompleted(task) /\ task.id < current_task_id
        earlier == SelectSeq(st.todo_list, Earlier)
    IN  [completed_tasks |->
            [i \in DOMAIN earlier |->
                [id |-> earlier[i].id, task |-> earlier[i].task,
                 artifacts |-> earlier[i].artifacts]],
         available_files |-> fs,
         objective |-> st.objective]

\* SupervisorAgent._execute_plan: the planning delegation.  The collaborator
\* creates resp.descs through update_todo_tool, then returns or raises.
_execute_plan(st, tm, fs, resp) ==
    [success |-> ~resp.raises, result |-> "plan output",
     todo_manager |-> create_tasks(tm, resp.descs), files |-> fs,
     exec |-> NoExec]

\* SupervisorAgent._execute_task: the execution delegation for task_id (the
\* first pending task of the state when task_id names none).
_execute_task(st, tm, fs, task_id, resp) ==
    LET todo_list == st.todo_list
        by_id == IF task_id # None
                 THEN FirstIndex(todo_list, "id", task_id)
                 ELSE 0
        i == IF by_id # 0 THEN by_id
             ELSE FirstIndex(todo_list, "status", "pending")
        tt == task_tool(tm, fs, todo_list[i].task, resp)
    IN  IF i = 0
        THEN [success |-> FALSE,
              result |-> "No pending tasks found to execute",
              todo_manager |-> tm, files |-> fs, exec |-> NoExec]
        ELSE [success |-> ~resp.raises, result |-> "execute output",
              todo_manager |-> tt.todo_manager, files |-> tt.files,
              exec |-> [task_id |-> todo_list[i].id,
                        outcome |-> resp.outcome,
                        raised |-> resp.raises]]

\* SupervisorAgent.execute_action: routes on the action; an exception of the
\* delegation becomes success = False.
execute_action(st, tm, fs, action, task_id, resp) ==
    IF action = "finalize" THEN _execute_finalize(st, tm, fs)
    ELSE IF action = "execute" THEN _execute_task(st, tm, fs, task_id, resp)
    ELSE _execute_plan(st, tm, fs, resp)

(***************************************************************************)
(* supervisor_node                                                         *)
(***************************************************************************)

\* state["messages"].append(...): a KeyError when the state has no
\* "messages" key.
AppendMessage(st) == [st EXCEPT !.messages.n = @ + 1]

\* The state's two views of the ledger, as every sync writes them.
SyncWithTodoManager(st, tm) ==
    [st EXCEPT !.todo_list = get_all_tasks(tm),
               !.completed_tasks = SelectSeq(get_all_tasks(tm), IsCompleted)]

\* The except clause of supervisor_node giving back the iteration_count the
\* node was entered with.
SupervisorExcept_count_undone(st, tm, fs, agent, dec, exec) ==
    LET st0 == [st EXCEPT !.iteration_count = @ - 1]
    IN  IF st0.messages.present
        THEN [state |-> [AppendMessage(st0) EXCEPT
                            !.final_result = "Supervisor error"],
              todo_manager |-> tm, files |-> fs, has_agent |-> agent,
              decision |-> dec, exec |-> exec, raised |-> FALSE]
        ELSE [state |-> st0, todo_manager |-> tm, files |-> fs,
              has_agent |-> agent, decision |-> dec, exec |-> exec,
              raised |-> TRUE]

\* The except clause of supervisor_node: it appends to state["messages"]
\* itself, so on a state without that key the KeyError leaves the node.
SupervisorExcept(st, tm, fs, agent, dec, exec) ==
    IF st.messages.present
    THEN [state |-> [AppendMessage(st) EXCEPT
                        !.final_result = "Supervisor error"],
          todo_manager |-> tm, files |-> fs, has_agent |-> agent,
          decision |-> dec, exec |-> exec, raised |-> FALSE]
    ELSE [state |-> st, todo_manager |-> tm, files |-> fs,
          has_agent |-> agent, decision |-> dec, exec |-> exec,
          raised |-> TRUE]

\* supervisor_node, one call.  The state is mutated in place, so what the
\* try block wrote before an exception stays written.
supervisor_node(st, tm, fs, agent, resp) ==
    LET st1 == [st EXCEPT !.iteration_count = @ + 1]
    IN  IF st1.iteration_count > MAX_ITERATIONS
        THEN [state |-> [st1 EXCEPT
                            !.final_result = "Maximum iterations reached"],
              todo_manager |-> tm, files |-> fs, has_agent |-> agent,
              decision |-> NoDecision, exec |-> NoExec, raised |-> FALSE]
        ELSE IF ~agent /\ ~resp.agent_ok
        THEN SupervisorExcept(st1, tm, fs, agent, NoDecision, NoExec)
        ELSE
        LET dec == decide_next_action(st1)
            er  == execute_action(st1, tm, fs, dec.action, dec.next_task_id,
                                  resp)
            tm2 == er.todo_manager
        IN  IF ~st1.messages.present
            THEN SupervisorExcept(st1, tm2, er.files, TRUE, dec, er.exec)
            ELSE
            LET st2 == AppendMessage(st1)
                st3 == IF er.success /\ dec.action = "finalize"
                          /\ st2.final_result = ""
                       THEN [st2 EXCEPT !.final_result = er.result]
                       ELSE st2
                st4 == SyncWithTodoManager(st3, tm2)
                pending_tasks == SelectSeq(st4.todo_list, IsPending)
                st5 == IF (dec.action = "finalize" \/ pending_tasks = <<>>)
                          /\ st4.final_result = ""
                       THEN [st4 EXCEPT !.final_result =
                                "All tasks completed successfully."]
                       ELSE st4
            IN  [state |-> st5, todo_manager |-> tm2, files |-> er.files,
                 has_agent |-> TRUE, decision |-> dec, exec |-> er.exec,
                 raised |-> FALSE]

(***************************************************************************)
(* The nodes of workflow.py                                                *)
(***************************************************************************)

\* workflow.create_initial_state; `messages` tells whether the dict handed to
\* the graph has a "messages" key (core/state.py's create_initial_state
\* builds one, workflow.py's does not).
create_initial_state(max_iterations, messages) ==
    [objective       |-> "objective",
     todo_list       |-> <<>>,
     completed_tasks |-> <<>>,
     iteration_count |-> 0,
     final_result    |-> "",
     max_iterations  |-> max_iterations,
     route           |-> "unset",
     messages        |-> [present |-> messages, n |-> 0]]

\* initialize_node: every other key is already set by create_initial_state.
initialize_node(st) ==
    IF st.route = "unset" THEN [st EXCEPT !.route = "plan"] ELSE st

\* The todo_manager that workflow.py reads.  workflow.py puts src/ on
\* sys.path and imports core.tools.supervisor_tools, while the tools and
\* supervisor_node are those of src.core.tools.supervisor_tools (the entry
\* points import the package as src.*): two module objects, each with the
\* TodoManager() its import created.  No tool writes to the one workflow.py
\* reads, so it stays as constructed.
workflow_todo_manager == [todo_list |-> <<>>, next_task_id |-> 1]

\* execute_task_node: runs execute_action once more, on the state's route,
\* and after a success copies the list of workflow.py's todo_manager.
execute_task_node(st, tm, fs, agent, resp) ==
    IF ~agent
    THEN [state |-> st, todo_manager |-> tm, files |-> fs, exec |-> NoExec]
    ELSE
    LET er  == execute_action(st, tm, fs, st.route, None, resp)
        st1 == IF er.success /\ st.route = "finalize" /\ er.result # ""
               THEN [st EXCEPT !.final_result = er.result]
               ELSE st
        st2 == IF er.success
               THEN SyncWithTodoManager(st1, workflow_todo_manager)
               ELSE st
    IN  [state |-> st2, todo_manager |-> er.todo_manager,
         files |-> er.files, exec |-> er.exec]

\* update_state_node reading the ledger the tools write to (tm).
update_state_node_tools_ledger(st, tm) ==
    SyncWithTodoManager(st, tm)

\* update_state_node: copies the list of workflow.py's todo_manager; tm, the
\* ledger of the tools, is not what it reads.
update_state_node(st, tm) ==
    SyncWithTodoManager(st, workflow_todo_manager)

\* should_continue without its second rule (an empty list is not given
\* another planning pass).
should_continue_no_second_chance(st) ==
    IF st.final_result # "" THEN "end"
    ELSE IF SelectSeq(st.todo_list, IsPending) = <<>> THEN "end"
    ELSE IF st.iteration_count >= st.max_iterations THEN "end"
    ELSE "supervisor"

\* should_continue
should_continue(st) ==
    IF st.final_result # "" THEN "end"
    ELSE IF st.todo_list = <<>>
    THEN (IF st.iteration_count < 2 THEN "supervisor" ELSE "end")
    ELSE IF SelectSeq(st.todo_list, IsPending) = <<>> THEN "end"
    ELSE IF st.iteration_count >= st.max_iterations THEN "end"
    ELSE "supervisor"

\* finalize_node
finalize_node(st) ==
    IF st.final_result = ""
    THEN [st EXCEPT !.final_result = "Task Execution Summary (finalize_node)"]
    ELSE st

(***************************************************************************)
(* The run: initialize -> supervisor -> execute_task -> update_state ->     *)
(* should_continue -> (supervisor | finalize -> END).                      *)
(***************************************************************************)

Init ==
    /\ pc = "initialize"
    /\ \E m \in RunMaxIterationsInputs, messages \in BOOLEAN :
          state = create_initial_state(m, messages)
    /\ todo_manager = [todo_list |-> <<>>, next_task_id |-> 1]
    /\ files = {}
    /\ has_agent = FALSE
    /\ decision = NoDecision
    /\ last_exec = NoExec
    /\ executed = {}
    /\ hist = [first_plan |-> 0, later_created |-> FALSE,
               all_reported |-> TRUE, in_order |-> TRUE]

\* The ids whose EXECUTE step has returned, after a step that ran exec.
Executed(exec) ==
    IF exec.task_id = None THEN executed ELSE executed \cup {exec.task_id}

\* The record of the collaborator's behaviour after one delegation:
\*   first_plan     tasks created by the planning delegation DECIDE chose;
\*   later_created  some other delegation created a task;
\*   all_reported   every execution delegation so far returned with the
\*                  subagent's success or failure;
\*   in_order       every execution delegation so far was for an id above
\*                  all ids executed before it.
History(action, exec, created) ==
    [first_plan    |-> IF action = "plan" THEN created ELSE hist.first_plan,
     later_created |-> hist.later_created \/ (action # "plan" /\ created > 0),
     all_reported  |-> hist.all_reported
                          /\ (exec.task_id # None =>
                                 exec.outcome \in {"success", "failure"}
                                 /\ ~exec.raised),
     in_order      |-> hist.in_order
                          /\ (exec.task_id # None =>
                                 \A e \in executed : e < exec.task_id)]

InitializeNode ==
    /\ pc = "initialize"
    /\ state' = initialize_node(state)
    /\ pc' = "supervisor"
    /\ UNCHANGED <<todo_manager, files, has_agent, decision, last_exec,
                   executed, hist>>

SupervisorNode ==
    /\ pc = "supervisor"
    /\ \E resp \in Responses(todo_manager, has_agent,
                               decide_next_action(
                                   [state EXCEPT !.iteration_count = @ + 1]
                               ).action) :
          LET r == supervisor_node(state, todo_manager, files, has_agent, resp)
          IN  /\ state' = r.state
              /\ todo_manager' = r.todo_manager
              /\ files' = r.files
              /\ has_agent' = r.has_agent
              /\ decision' = r.decision
              /\ last_exec' = r.exec
              /\ executed' = Executed(r.exec)
              /\ hist' = History(r.decision.action, r.exec,
                                 Len(r.todo_manager.todo_list)
                                    - Len(todo_manager.todo_list))
              /\ pc' = IF r.raised THEN "raised" ELSE "execute_task"

ExecuteTaskNode ==
    /\ pc = "execute_task"
    /\ \E resp \in Responses(todo_manager, has_agent, state.route) :
          LET r == execute_task_node(state, todo_manager, files, has_agent,
                                     resp)
          IN  /\ state' = r.state
              /\ todo_manager' = r.todo_manager
              /\ files' = r.files
              /\ executed' = Executed(r.exec)
              /\ hist' = History("execute_task_node", r.exec,
                                 Len(r.todo_manager.todo_list)
                                    - Len(todo_manager.todo_list))
    /\ pc' = "update_state"
    /\ UNCHANGED <<has_agent, decision, last_exec>>

UpdateStateNode ==
    /\ pc = "update_state"
    /\ state' = update_state_node(state, todo_manager)
    /\ pc' = "should_continue"
    /\ UNCHANGED <<todo_manager, files, has_agent, decision, last_exec,
                   executed, hist>>

ShouldContinue ==
    /\ pc = "should_continue"
    /\ pc' = IF should_continue(state) = "supervisor"
             THEN "supervisor" ELSE "finalize"
    /\ UNCHANGED <<state, todo_manager, files, has_agent, decision,
                   last_exec, executed, hist>>

FinalizeNode ==
    /\ pc = "finalize"
    /\ state' = finalize_node(state)
    /\ pc' = "END"
    /\ UNCHANGED <<todo_manager, files, has_agent, decision, last_exec,
                   executed, hist>>

Next ==
    \/ InitializeNode
    \/ SupervisorNode
    \/ ExecuteTaskNode
    \/ UpdateStateNode
    \/ ShouldContinue
    \/ FinalizeNode

Spec == Init /\ [][Next]_vars

\* The graph runs a node whenever one is due.
FairSpec == Spec /\ WF_vars(Next)

(***************************************************************************)
(* Runs of one process, one after the other.  run_workflow builds a new    *)
(* state and invokes the graph; todo_manager (a module global), the        *)
(* VirtualFileSystem singleton and the agent kept on supervisor_node are   *)
(* the process's, and nothing resets them.                                 *)
(***************************************************************************)
RunWorkflow ==
    /\ pc \in {"END", "raised"}
    /\ \E m \in RunMaxIterationsInputs, messages \in BOOLEAN :
          state' = create_initial_state(m, messages)
    /\ pc' = "initialize"
    /\ decision' = NoDecision
    /\ last_exec' = NoExec
    /\ executed' = {}
    /\ hist' = [first_plan |-> 0, later_created |-> FALSE,
                all_reported |-> TRUE, in_order |-> TRUE]
    /\ UNCHANGED <<todo_manager, files, has_agent>>

ProcessNext ==
    \/ InitializeNode
    \/ SupervisorNode
    \/ ExecuteTaskNode
    \/ UpdateStateNode
    \/ ShouldContinue
    \/ FinalizeNode
    \/ RunWorkflow

ProcessSpec == Init /\ [][ProcessNext]_vars

(***************************************************************************)
(* The graph invoked on an input state.  workflow.py exports the compiled  *)
(* graph, and in its state schema todo_list and completed_tasks are        *)
(* "optional at input time": the input may carry the tasks of the ledger,  *)
(* which the supervisor's tools have filled and updated before.            *)
(***************************************************************************)

\* The ledgers create_tasks and update_task_status can leave.
InputLedgers ==
    UNION {
        {[tm EXCEPT !.todo_list =
             [i \in DOMAIN tm.todo_list |->
                 [tm.todo_list[i] EXCEPT !.status = sts[i]]]] :
            sts \in [DOMAIN tm.todo_list -> Statuses]} :
        tm \in {create_tasks([todo_list |-> <<>>, next_task_id |-> 1], descs) :
                   descs \in SeqsUpTo(Descriptions, MaxTasks)}}

InputInit ==
    /\ pc = "initialize"
    /\ todo_manager \in InputLedgers
    /\ \E m \in RunMaxIterationsInputs, messages \in BOOLEAN :
          state = SyncWithTodoManager(create_initial_state(m, messages),
                                      todo_manager)
    /\ files = {}
    /\ has_agent = FALSE
    /\ decision = NoDecision
    /\ last_exec = NoExec
    /\ executed = {}
    /\ hist = [first_plan |-> 0, later_created |-> FALSE,
               all_reported |-> TRUE, in_order |-> TRUE]

InputSpec == InputInit /\ [][Next]_vars

(***************************************************************************)
(* The task executor (core/agents/task_executor.py) and the steps taken on *)
(* one session state: supervisor_node, update_state_node and the task      *)
(* executor's execute_task_node, which the API route /task/execute calls   *)
(* on the stored state after setting state["current_task"] from the        *)
(* request.                                                                *)
(***************************************************************************)

\* Python's None for state["current_task"].
NoCurrentTask ==
    [id |-> None, description |-> "", assigned_tools |-> <<>>,
     status |-> "none"]

\* core/state.py's create_initial_state: a state with a messages list and
\* no current task.
state_create_initial_state ==
    [objective       |-> "objective",
     todo_list       |-> <<>>,
     completed_tasks |-> <<>>,
     current_task    |-> NoCurrentTask,
     iteration_count |-> 0,
     final_result    |-> "",
     messages        |-> [present |-> TRUE, n |-> 0]]

\* _execute_task_with_tool: invokes task_tool with the task's description
\* and tools; the success criteria it is given are never empty.
_execute_task_with_tool(tm, fs, task_description, assigned_tools, resp) ==
    LET result == task_tool_call(tm, fs, task_description, assigned_tools,
                                 "Complete the task", resp)
    IN  [success |-> result.success,
         result |-> IF result.delegated /\ resp.outcome = "success"
                    THEN "subagent output" ELSE "",
         artifacts |-> IF result.delegated /\ resp.outcome # "not_run"
                       THEN run_subagent(fs, resp).artifacts_created
                       ELSE {},
         details |-> result.details,
         todo_manager |-> result.todo_manager,
         files |-> result.files]

\* _update_state_with_results: an entry for the task goes to
\* state["completed_tasks"], with status completed or failed after the
\* result's success; the task leaves state["todo_list"]; current_task is
\* cleared; one message is appended.
_update_state_with_results(st, task_id, task_description, execution_result) ==
    LET task_status == IF execution_result.success
                       THEN "completed" ELSE "failed"
        completed_task ==
            [id |-> task_id,
             task |-> task_description,
             result |-> execution_result.result,
             artifacts |-> execution_result.artifacts,
             status |-> task_status,
             execution_details |-> execution_result.details,
             completed_iteration |-> st.iteration_count]
        Others(task) == task.id # task_id
    IN  [AppendMessage(st) EXCEPT
            !.completed_tasks = Append(@, completed_task),
            !.todo_list = SelectSeq(@, Others),
            !.current_task = NoCurrentTask]

\* task_executor.execute_task_node
task_executor_execute_task_node(st, tm, fs, resp) ==
    LET current_task == st.current_task
        execution_result ==
            _execute_task_with_tool(tm, fs, current_task.description,
                                    current_task.assigned_tools, resp)
    IN  IF current_task = NoCurrentTask
        THEN [state |-> AppendMessage(st), todo_manager |-> tm, files |-> fs]
        ELSE [state |-> _update_state_with_results(
                            st, current_task.id, current_task.description,
                            execution_result),
              todo_manager |-> execution_result.todo_manager,
              files |-> execution_result.files]

\* The tasks a request of /task/execute names.
TaskRequests ==
    [id : 1..MaxTasks, description : Descriptions,
     assigned_tools : {<<>>, <<"write_file">>}, status : {"pending"}]

ExecutorInit ==
    /\ pc = "session"
    /\ state = state_create_initial_state
    /\ todo_manager = [todo_list |-> <<>>, next_task_id |-> 1]
    /\ files = {}
    /\ has_agent = FALSE
    /\ decision = NoDecision
    /\ last_exec = NoExec
    /\ executed = {}
    /\ hist = 0

SessionSupervisorNode ==
    /\ pc = "session"
    /\ hist < MaxSessionSteps
    /\ \E resp \in Responses(todo_manager, has_agent,
                               decide_next_action(
                                   [state EXCEPT !.iteration_count = @ + 1]
                               ).action) :
          LET r == supervisor_node(state, todo_manager, files, has_agent, resp)
          IN  /\ state' = r.state
              /\ todo_manager' = r.todo_manager
              /\ files' = r.files
              /\ has_agent' = r.has_agent
              /\ decision' = r.decision
              /\ last_exec' = r.exec
              /\ executed' = Executed(r.exec)
    /\ hist' = hist + 1
    /\ UNCHANGED pc

SessionUpdateStateNode ==
    /\ pc = "session"
    /\ hist < MaxSessionSteps
    /\ state' = update_state_node(state, todo_manager)
    /\ hist' = hist + 1
    /\ UNCHANGED <<pc, todo_manager, files, has_agent, decision, last_exec,
                   executed>>

\* The route /task/execute: sets current_task, then runs the task executor.
TaskExecute ==
    /\ pc = "session"
    /\ hist < MaxSessionSteps
    /\ \E current_task \in TaskRequests,
          resp \in Responses(todo_manager, TRUE, "execute") :
          LET r == task_executor_execute_task_node(
                       [state EXCEPT !.current_task = current_task],
                       todo_manager, files, resp)
          IN  /\ ~resp.raises
              /\ state' = r.state
              /\ todo_manager' = r.todo_manager
              /\ files' = r.files
              /\ executed' = executed \cup {current_task.id}
    /\ hist' = hist + 1
    /\ UNCHANGED <<pc, has_agent, decision, last_exec>>

ExecutorNext ==
    \/ SessionSupervisorNode
    \/ SessionUpdateStateNode
    \/ TaskExecute

ExecutorSpec == ExecutorInit /\ [][ExecutorNext]_vars

(***************************************************************************)
(* One TodoManager driven by any sequence of its operations.  Here hist is *)
(* the sequence of the ids given to the tasks created so far, in creation  *)
(* order, removed tasks included, and last_exec is the last operation      *)
(* called with what it returned.                                           *)
(***************************************************************************)
LedgerInit ==
    /\ pc = "ledger"
    /\ state = create_initial_state(DefaultMaxIterations, FALSE)
    /\ todo_manager = [todo_list |-> <<>>, next_task_id |-> 1]
    /\ files = {}
    /\ has_agent = FALSE
    /\ decision = NoDecision
    /\ last_exec = [op |-> "TodoManager", returns |-> "None"]
    /\ executed = {}
    /\ hist = <<>>

\* The ids of the tasks an operation appended (its created tasks).
CreatedIds(tm, tm2) ==
    [i \in 1..(Len(tm2.todo_list) - Len(tm.todo_list)) |->
        tm2.todo_list[Len(tm.todo_list) + i].id]

CreateTasks ==
    /\ pc = "ledger"
    /\ \E task_descriptions \in
            SeqsUpTo(LedgerDescriptions, MaxCreated - Len(hist)) :
          /\ todo_manager' = create_tasks(todo_manager, task_descriptions)
          /\ hist' = hist \o CreatedIds(todo_manager, todo_manager')
    /\ last_exec' = [op |-> "create_tasks", returns |-> "tasks"]
    /\ UNCHANGED <<pc, state, files, has_agent, decision, executed>>

AddTask ==
    /\ pc = "ledger"
    /\ Len(hist) < MaxCreated
    /\ \E description \in LedgerDescriptions :
          /\ todo_manager' = add_task(todo_manager, description)
          /\ hist' = hist \o CreatedIds(todo_manager, todo_manager')
    /\ last_exec' = [op |-> "add_task", returns |-> "task"]
    /\ UNCHANGED <<pc, state, files, has_agent, decision, executed>>

UpdateTaskStatus ==
    /\ pc = "ledger"
    /\ \E task_id \in 1..(MaxCreated + 1), new_status \in StatusInputs :
          /\ todo_manager' = update_task_status(todo_manager, task_id,
                                                new_status)
          /\ last_exec' = [op |-> "update_task_status",
                           returns |-> UpdateReturns(todo_manager, task_id,
                                                     new_status)]
    /\ UNCHANGED <<pc, state, files, has_agent, decision, executed, hist>>

UpdateTaskWithArtifacts ==
    /\ pc = "ledger"
    /\ \E task_id \in 1..(MaxCreated + 1), new_status \in StatusInputs,
          artifacts \in SUBSET Paths :
          /\ todo_manager' = update_task_with_artifacts(
                                 todo_manager, task_id, new_status, artifacts)
          /\ last_exec' = [op |-> "update_task_with_artifacts",
                           returns |-> UpdateReturns(todo_manager, task_id,
                                                     new_status)]
    /\ UNCHANGED <<pc, state, files, has_agent, decision, executed, hist>>

\* The calls of update_todo_tool: each action with the arguments it reads
\* (the others left at their default, None), and an action it does not know.
TodoToolCalls ==
    [action : {"create"}, task_id : {None},
     task_description : SeqsUpTo(LedgerDescriptions, MaxCreated),
     new_status : {NoStatus}]
    \cup
    [action : {"add_new"}, task_id : {None},
     task_description : SeqsUpTo(LedgerDescriptions, 1),
     new_status : {NoStatus}]
    \cup
    [action : {"update_status"}, task_id : 0..(MaxCreated + 1),
     task_description : {<<>>},
     new_status : StatusInputs \cup {NoStatus}]
    \cup
    [action : {"delete"}, task_id : {None}, task_description : {<<>>},
     new_status : {NoStatus}]

UpdateTodoTool ==
    /\ pc = "ledger"
    /\ \E call \in TodoToolCalls :
          LET r == update_todo_tool(todo_manager, call.action, call.task_id,
                                    call.task_description, call.new_status)
          IN  /\ todo_manager' = r.todo_manager
              /\ hist' = hist \o CreatedIds(todo_manager, r.todo_manager)
              /\ Len(hist') <= MaxCreated
              /\ last_exec' = [op |-> "update_todo_tool",
                               returns |-> IF r.success THEN "success"
                                           ELSE "failure"]
    /\ UNCHANGED <<pc, state, files, has_agent, decision, executed>>

ClearCompletedTasks ==
    /\ pc = "ledger"
    /\ todo_manager' = clear_completed_tasks(todo_manager)
    /\ last_exec' = [op |-> "clear_completed_tasks", returns |-> "count"]
    /\ UNCHANGED <<pc, state, files, has_agent, decision, executed, hist>>

LedgerNext ==
    \/ CreateTasks
    \/ AddTask
    \/ UpdateTaskStatus
    \/ UpdateTaskWithArtifacts
    \/ UpdateTodoTool
    \/ ClearCompletedTasks

LedgerSpec == LedgerInit /\ [][LedgerNext]_vars

(***************************************************************************)
(* task_tool as a function of its arguments: the ledger holds the tasks of *)
(* one create_tasks call, the file system any of its paths, and the tool   *)
(* is called once.  Here decision is the call and last_exec what the call  *)
(* returned.                                                               *)
(***************************************************************************)

\* Names handed to task_tool: the registry's, the table's, and two that are
\* in neither.
ToolNameInputs ==
    AvailableTools \cup DOMAIN tool_name_corrections
    \cup {"nonexistent_tool", "list_files_tool"}

\* The subagent's run in a call of task_tool.
SubagentRuns ==
    [outcome : ExecOutcomes \ {"not_run"}, writes : SUBSET Paths,
     deletes : SUBSET Paths]

TaskToolInit ==
    /\ pc = "task_tool"
    /\ state = create_initial_state(DefaultMaxIterations, FALSE)
    /\ \E task_descriptions \in SeqsUpTo(Descriptions, MaxTasks) :
          todo_manager = create_tasks([todo_list |-> <<>>, next_task_id |-> 1],
                                      task_descriptions)
    /\ files \in SUBSET Paths
    /\ has_agent = FALSE
    /\ decision = NoDecision
    /\ last_exec = NoExec
    /\ executed = {}
    /\ hist = <<>>

TaskToolCall ==
    /\ pc = "task_tool"
    /\ \E task_description \in Descriptions \cup {""},
          assigned_tools \in SeqsUpTo(ToolNameInputs, MaxAssignedTools),
          success_criteria \in {"", "criteria"},
          resp \in SubagentRuns :
          LET r == task_tool_call(todo_manager, files, task_description,
                                  assigned_tools, success_criteria, resp)
          IN  /\ decision' = [task_description |-> task_description,
                              assigned_tools |-> assigned_tools,
                              success_criteria |-> success_criteria]
              /\ last_exec' = [success |-> r.success,
                               details |-> r.details,
                               invalid_tools |-> r.invalid_tools,
                               available |-> r.available,
                               delegated |-> r.delegated]
              /\ todo_manager' = r.todo_manager
              /\ files' = r.files
    /\ pc' = "returned"
    /\ UNCHANGED <<state, has_agent, executed, hist>>

TaskToolSpec == TaskToolInit /\ [][TaskToolCall]_vars

(***************************************************************************)
(* The tools given to a created task, as a function of the call: one task  *)
(* is created on a new ledger through one of the three entry points.  Here *)
(* decision is the call and last_exec the assigned_tools of the task       *)
(* created.                                                                *)
(***************************************************************************)
AssignInit ==
    /\ pc = "create"
    /\ state = create_initial_state(DefaultMaxIterations, FALSE)
    /\ todo_manager = [todo_list |-> <<>>, next_task_id |-> 1]
    /\ files = {}
    /\ has_agent = FALSE
    /\ decision = NoDecision
    /\ last_exec = NoExec
    /\ executed = {}
    /\ hist = <<>>

AssignCall ==
    /\ pc = "create"
    /\ \E entry \in {"create_tasks", "add_task", "update_todo_tool"},
          task_description \in ToolTexts,
          assigned_tools \in SeqsUpTo(ToolNameInputs, MaxAssignedTools) :
          /\ decision' = [entry |-> entry,
                          task_description |-> task_description,
                          assigned_tools |-> assigned_tools]
          /\ todo_manager' =
                IF entry = "add_task"
                THEN add_task(todo_manager, task_description)
                ELSE create_tasks(todo_manager, <<task_description>>)
          /\ last_exec' = [assigned_tools |->
                              CreatedAssignedTools(entry, task_description,
                                                   assigned_tools)]
    /\ pc' = "created"
    /\ UNCHANGED <<state, files, has_agent, executed, hist>>

AssignSpec == AssignInit /\ [][AssignCall]_vars

(***************************************************************************)
(* decide_next_action as a function of its argument: the state is drawn    *)
(* from every task list over ids 1..MaxTasks in any order and any status,  *)
(* and the function is applied once.                                       *)
(***************************************************************************)

\* One-to-one sequences of ids, of length at most MaxTasks.
IdOrders ==
    {ids \in SeqsUpTo(1..MaxTasks, MaxTasks) :
        \A i, j \in 1..Len(ids) : i # j => ids[i] # ids[j]}

TaskLists ==
    UNION {
        {[i \in 1..Len(ids) |->
             [id |-> ids[i], task |-> "d1", status |-> sts[i],
              artifacts |-> {}]] :
            sts \in [1..Len(ids) -> Statuses]} :
        ids \in IdOrders}

IterationCountInputs == 0..(MAX_ITERATIONS + 1)

DecideInit ==
    /\ pc = "decide"
    /\ \E tl \in TaskLists, ic \in IterationCountInputs,
          m \in MaxIterationsInputs :
          state = [create_initial_state(m, TRUE) EXCEPT
                      !.todo_list = tl,
                      !.completed_tasks = SelectSeq(tl, IsCompleted),
                      !.iteration_count = ic]
    /\ todo_manager = [todo_list |-> <<>>, next_task_id |-> 1]
    /\ files = {}
    /\ has_agent = TRUE
    /\ decision = NoDecision
    /\ last_exec = NoExec
    /\ executed = {}
    /\ hist = [first_plan |-> 0, later_created |-> FALSE,
               all_reported |-> TRUE, in_order |-> TRUE]

DecideCall ==
    /\ pc = "decide"
    /\ decision' = decide_next_action(state)
    /\ pc' = "decided"
    /\ UNCHANGED <<state, todo_manager, files, has_agent, last_exec, executed,
                   hist>>

DecideSpec == DecideInit /\ [][DecideCall]_vars

(***************************************************************************)
(* _build_task_context as a function of its arguments: the state holds any *)
(* task list, the ledger the same list (as the last sync left it), the     *)
(* file system any of its paths, and the context is built once for any     *)
(* task id.  Here decision is the call and last_exec the context.          *)
(***************************************************************************)
ContextInit ==
    /\ pc = "build_context"
    /\ \E tl \in TaskLists :
          /\ state = [create_initial_state(DefaultMaxIterations, TRUE) EXCEPT
                         !.todo_list = tl,
                         !.completed_tasks = SelectSeq(tl, IsCompleted),
                         !.iteration_count = 2]
          /\ todo_manager = [todo_list |-> tl, next_task_id |-> MaxTasks + 1]
    /\ files \in SUBSET Paths
    /\ has_agent = TRUE
    /\ decision = NoDecision
    /\ last_exec = NoExec
    /\ executed = {}
    /\ hist = <<>>

BuildTaskContext ==
    /\ pc = "build_context"
    /\ \E current_task_id \in 1..(MaxTasks + 1) :
          /\ decision' = [current_task_id |-> current_task_id]
          /\ last_exec' = _build_task_context(state, files, current_task_id)
    /\ pc' = "built"
    /\ UNCHANGED <<state, todo_manager, files, has_agent, executed, hist>>

ContextSpec == ContextInit /\ [][BuildTaskContext]_vars

(***************************************************************************)
(* VirtualFileSystem with its contents.  A store is a function from the    *)
(* paths it holds to their contents; a content is a sequence of            *)
(* characters.  Every operation gives back what it raises ("None" when it  *)
(* returns), what it returns, and the store it leaves.                     *)
(***************************************************************************)

\* The characters of a content: a letter and the newline.
Chars == {"a", "\n"}

\* The contents written and edited with.
Contents == SeqsUpTo(Chars, MaxContentLen)

\* Paths handed to the file system: Paths, one more, and the empty string.
PathInputs == Paths \cup {"notes.txt", ""}

\* VirtualFileSystem.read_file
read_file(store, path) ==
    IF path = "" THEN [raises |-> "ValueError", content |-> <<>>]
    ELSE IF path \notin DOMAIN store
    THEN [raises |-> "FileNotFoundError", content |-> <<>>]
    ELSE [raises |-> "None", content |-> store[path]]

\* self.files[path] = content
Stored(store, path, content) ==
    [p \in DOMAIN store \cup {path} |->
        IF p = path THEN content ELSE store[p]]

\* write_file that adds the content to what the path already holds.
write_file_appending(store, path, content) ==
    IF path = ""
    THEN [raises |-> "ValueError", status |-> "", files |-> store]
    ELSE [raises |-> "None",
          status |-> IF path \notin DOMAIN store THEN "created"
                     ELSE "overwritten",
          files |-> Stored(store, path,
                           IF path \in DOMAIN store
                           THEN store[path] \o content ELSE content)]

\* VirtualFileSystem.write_file
write_file(store, path, content) ==
    IF path = ""
    THEN [raises |-> "ValueError", status |-> "", files |-> store]
    ELSE [raises |-> "None",
          status |-> IF path \notin DOMAIN store THEN "created"
                     ELSE "overwritten",
          files |-> Stored(store, path, content)]

RECURSIVE str_replace(_, _, _)
\* content.replace(find_str, replace_str) for a find_str of one character.
str_replace(content, find_str, replace_str) ==
    IF content = <<>> THEN <<>>
    ELSE (IF <<Head(content)>> = find_str THEN replace_str
          ELSE <<Head(content)>>)
         \o str_replace(Tail(content), find_str, replace_str)

RECURSIVE str_count(_, _)
\* modified_content.count(find_str) for a find_str of one character.
str_count(content, find_str) ==
    IF content = <<>> THEN 0
    ELSE (IF <<Head(content)>> = find_str THEN 1 ELSE 0)
         + str_count(Tail(content), find_str)

RECURSIVE FindReplace_last_pair_first(_, _)
\* The loop of the find_replace mode run from the last edit to the first.
FindReplace_last_pair_first(content, edits) ==
    IF edits = <<>> THEN content
    ELSE str_replace(FindReplace_last_pair_first(content, Tail(edits)),
                     Head(edits).find, Head(edits).replace)

RECURSIVE FindReplace(_, _)
\* The loop of the find_replace mode over the list of edits; an edit whose
\* find string is not in the content leaves it.
FindReplace(content, edits) ==
    IF edits = <<>> THEN content
    ELSE FindReplace(
            str_replace(content, Head(edits).find, Head(edits).replace),
            Tail(edits))

RECURSIVE FindReplaceChanges_every_pair(_, _)
\* changes_made with an entry for every edit, found or not.
FindReplaceChanges_every_pair(content, edits) ==
    IF edits = <<>> THEN <<>>
    ELSE <<[find |-> Head(edits).find, replace |-> Head(edits).replace,
            occurrences |-> str_count(content, Head(edits).find)]>>
         \o FindReplaceChanges_every_pair(
               str_replace(content, Head(edits).find, Head(edits).replace),
               Tail(edits))

RECURSIVE FindReplaceChanges(_, _)
\* changes_made of the find_replace mode: one entry, in list order, for
\* every edit whose find string was in the content when its turn came.
FindReplaceChanges(content, edits) ==
    IF edits = <<>> THEN <<>>
    ELSE LET count == str_count(content, Head(edits).find)
         IN  (IF count > 0
              THEN <<[find |-> Head(edits).find,
                      replace |-> Head(edits).replace,
                      occurrences |-> count]>>
              ELSE <<>>)
             \o FindReplaceChanges(
                   str_replace(content, Head(edits).find,
                               Head(edits).replace),
                   Tail(edits))

RECURSIVE TotalReplacements(_, _)
\* total_replacements of the find_replace mode: the counts added up as the
\* loop goes.
TotalReplacements(content, edits) ==
    IF edits = <<>> THEN 0
    ELSE str_count(content, Head(edits).find)
         + TotalReplacements(
              str_replace(content, Head(edits).find, Head(edits).replace),
              Tail(edits))

\* What the store holds at a path after replace mode was handed a list: the
\* list itself, which is not a string.
ListContent == <<"list">>

\* edit_file from "original_content = self.files[path]" on, for a path the
\* store holds.  edits is a string (is_str, text) or a list of find/replace
\* pairs (pairs).  Replace mode stores a list before measuring it fails;
\* over a content that is a list, append fails and find_replace finds
\* nothing; with a string the find_replace mode finds no dict among the
\* characters and leaves the content.
EditExisting(store, path, edits, mode) ==
    LET original_content == store[path]
        separator == IF original_content # <<>>
                        /\ original_content[Len(original_content)] # "\n"
                     THEN <<"\n">> ELSE <<>>
    IN  IF mode = "append"
        THEN IF ~edits.is_str
             THEN [raises |-> "None", success |-> FALSE,
                   error |-> "Append mode requires string content",
                   files |-> store]
             ELSE IF original_content = ListContent
             THEN [raises |-> "None", success |-> FALSE,
                   error |-> "AttributeError", files |-> store]
             ELSE [raises |-> "None", success |-> TRUE, error |-> "",
                   files |-> Stored(store, path,
                                    original_content \o separator
                                       \o edits.text)]
        ELSE IF mode = "replace" \/ (mode = "auto" /\ edits.is_str)
        THEN IF edits.is_str
             THEN [raises |-> "None", success |-> TRUE, error |-> "",
                   files |-> Stored(store, path, edits.text)]
             ELSE [raises |-> "None", success |-> FALSE,
                   error |-> "AttributeError",
                   files |-> Stored(store, path, ListContent)]
        ELSE IF mode = "find_replace" \/ (mode = "auto" /\ ~edits.is_str)
        THEN LET no_edit == edits.is_str \/ original_content = ListContent
             IN  [raises |-> "None", success |-> TRUE, error |-> "",
                  changes |-> IF no_edit THEN <<>>
                              ELSE FindReplaceChanges(original_content,
                                                      edits.pairs),
                  total_replacements |->
                      IF no_edit THEN 0
                      ELSE TotalReplacements(original_content, edits.pairs),
                  files |-> Stored(store, path,
                                   IF no_edit THEN original_content
                                   ELSE FindReplace(original_content,
                                                    edits.pairs))]
        ELSE [raises |-> "None", success |-> FALSE,
              error |-> "Invalid mode or edits format", files |-> store]

\* edit_file that writes a string to a path the store does not hold.
edit_file_creating(store, path, edits, mode) ==
    IF path \notin DOMAIN store /\ edits.is_str
          /\ mode \in {"auto", "append", "replace"}
    THEN [raises |-> "None", success |-> TRUE, error |-> "",
          files |-> Stored(store, path, edits.text)]
    ELSE IF path \notin DOMAIN store
    THEN [raises |-> "None", success |-> FALSE, error |-> "not found",
          files |-> store]
    ELSE EditExisting(store, path, edits, mode)

\* VirtualFileSystem.edit_file.  The result is always a dict, never an
\* exception: success with the new store, or success = False with the
\* error; a path the store does not hold is refused before the mode is
\* looked at.
edit_file(store, path, edits, mode) ==
    IF path \notin DOMAIN store
    THEN [raises |-> "None", success |-> FALSE, error |-> "not found",
          files |-> store]
    ELSE EditExisting(store, path, edits, mode)

\* VirtualFileSystem.delete_file
delete_file(store, path) ==
    IF path = "" THEN [raises |-> "ValueError", files |-> store]
    ELSE IF path \notin DOMAIN store
    THEN [raises |-> "FileNotFoundError", files |-> store]
    ELSE [raises |-> "None",
          files |-> [p \in DOMAIN store \ {path} |-> store[p]]]

\* VirtualFileSystem.get_file_info
get_file_info(store, path) ==
    IF path = "" THEN [raises |-> "ValueError", size_chars |-> 0]
    ELSE IF path \notin DOMAIN store
    THEN [raises |-> "FileNotFoundError", size_chars |-> 0]
    ELSE IF store[path] = ListContent
    THEN [raises |-> "AttributeError", size_chars |-> 0]
    ELSE [raises |-> "None", size_chars |-> Len(store[path])]

\* VirtualFileSystem.clear_all
clear_all(store) == [raises |-> "None", files |-> <<>>]

\* list_files with the newest path first.
list_files_newest_first(keys) ==
    [i \in 1..Len(keys) |-> keys[Len(keys) + 1 - i]]

\* VirtualFileSystem.list_files: list(self.files.keys()), the keys of the
\* dict in the order the dict keeps them.
list_files(keys) ==
    keys

\* The order a Python dict keeps its keys in after an operation that leaves
\* it holding store: a key that stays keeps its place whatever is assigned
\* to it, a deleted key leaves, a new key goes last.  No operation of the
\* file system adds more than one key.
dict_keys(keys, store) ==
    LET Held(p) == p \in DOMAIN store
        added == {p \in DOMAIN store : \A i \in 1..Len(keys) : keys[i] # p}
    IN  SelectSeq(keys, Held)
        \o (IF added = {} THEN <<>> ELSE <<CHOOSE p \in added : TRUE>>)

(***************************************************************************)
(* The file system driven call by call.  files is the store, from paths to *)
(* contents; last_exec records the last call: the operation, its path,     *)
(* what it raised ("None" when it returned), the success it reported, the  *)
(* content written or read, and the status write_file reported; hist is   *)
(* the order the dict of the store keeps its keys in.                      *)
(***************************************************************************)

\* The dicts of a find/replace list.
FindReplaceEdits ==
    {[find |-> <<ch>>, replace |-> r] : ch \in Chars,
                                         r \in {<<>>, <<"a">>, <<"\n">>}}

\* The edits argument of edit_file: a string, or a list of at most one dict.
EditsInputs ==
    {[is_str |-> TRUE, text |-> c, pairs |-> <<>>] : c \in Contents}
    \cup {[is_str |-> FALSE, text |-> <<>>, pairs |-> l] :
             l \in {<<>>} \cup {<<e>> : e \in FindReplaceEdits}}

\* The mode argument of edit_file: the four modes and one that is none.
ModeInputs == {"auto", "append", "replace", "find_replace", "other"}

\* Every content of the store is a list or within the length explored.
WithinContentLen(store) ==
    \A p \in DOMAIN store :
        store[p] = ListContent \/ Len(store[p]) <= MaxContentLen

FileInit ==
    /\ pc = "file_system"
    /\ files = <<>>
    /\ last_exec = [op |-> "VirtualFileSystem", path |-> "",
                    raises |-> "None", success |-> TRUE,
                    content |-> <<>>, status |-> ""]
    /\ state = create_initial_state(DefaultMaxIterations, FALSE)
    /\ todo_manager = [todo_list |-> <<>>, next_task_id |-> 1]
    /\ has_agent = TRUE
    /\ decision = NoDecision
    /\ executed = 0
    /\ hist = <<>>

WriteFile ==
    /\ pc = "file_system"
    /\ \E path \in PathInputs, content \in Contents :
          LET r == write_file(files, path, content)
          IN  /\ WithinContentLen(r.files)
              /\ files' = r.files
              /\ hist' = dict_keys(hist, r.files)
              /\ last_exec' = [op |-> "write_file", path |-> path,
                               raises |-> r.raises,
                               success |-> r.raises = "None",
                               content |-> content, status |-> r.status]
    /\ UNCHANGED <<pc, state, todo_manager, has_agent, decision, executed>>

ReadFile ==
    /\ pc = "file_system"
    /\ \E path \in PathInputs :
          LET r == read_file(files, path)
          IN  last_exec' = [op |-> "read_file", path |-> path,
                            raises |-> r.raises,
                            success |-> r.raises = "None",
                            content |-> r.content, status |-> ""]
    /\ UNCHANGED <<pc, state, todo_manager, files, has_agent, decision,
                   executed, hist>>

EditFile ==
    /\ pc = "file_system"
    /\ \E path \in PathInputs, edits \in EditsInputs, mode \in ModeInputs :
          LET r == edit_file(files, path, edits, mode)
          IN  /\ WithinContentLen(r.files)
              /\ files' = r.files
              /\ hist' = dict_keys(hist, r.files)
              /\ last_exec' = [op |-> "edit_file", path |-> path,
                               raises |-> r.raises, success |-> r.success,
                               content |-> <<>>, status |-> mode]
    /\ UNCHANGED <<pc, state, todo_manager, has_agent, decision, executed>>

DeleteFile ==
    /\ pc = "file_system"
    /\ \E path \in PathInputs :
          LET r == delete_file(files, path)
          IN  /\ files' = r.files
              /\ hist' = dict_keys(hist, r.files)
              /\ last_exec' = [op |-> "delete_file", path |-> path,
                               raises |-> r.raises,
                               success |-> r.raises = "None",
                               content |-> <<>>, status |-> ""]
    /\ UNCHANGED <<pc, state, todo_manager, has_agent, decision, executed>>

GetFileInfo ==
    /\ pc = "file_system"
    /\ \E path \in PathInputs :
          LET r == get_file_info(files, path)
          IN  last_exec' = [op |-> "get_file_info", path |-> path,
                            raises |-> r.raises,
                            success |-> r.raises = "None",
                            content |-> <<>>, status |-> ""]
    /\ UNCHANGED <<pc, state, todo_manager, files, has_agent, decision,
                   executed, hist>>

ClearAll ==
    /\ pc = "file_system"
    /\ LET r == clear_all(files)
       IN  /\ files' = r.files
           /\ hist' = dict_keys(hist, r.files)
           /\ last_exec' = [op |-> "clear_all", path |-> "",
                            raises |-> r.raises, success |-> TRUE,
                            content |-> <<>>, status |-> ""]
    /\ UNCHANGED <<pc, state, todo_manager, has_agent, decision, executed>>

FileNext ==
    \/ WriteFile
    \/ ReadFile
    \/ EditFile
    \/ DeleteFile
    \/ GetFileInfo
    \/ ClearAll

FileSpec == FileInit /\ [][FileNext]_vars

(***************************************************************************)
(* edit_file as a function of its arguments: the store holds nothing or    *)
(* one path with any content, the edits are a string or a list of up to    *)
(* MaxEdits find/replace dicts, the mode is any, and edit_file is called   *)
(* once.  decision is the call, hist the content the path held before it,  *)
(* last_exec the dict returned.                                            *)
(***************************************************************************)

\* The edits argument of edit_file: a string, or a list of up to MaxEdits
\* dicts.
EditCallInputs ==
    {[is_str |-> TRUE, text |-> c, pairs |-> <<>>] : c \in Contents}
    \cup {[is_str |-> FALSE, text |-> <<>>, pairs |-> l] :
             l \in SeqsUpTo(FindReplaceEdits, MaxEdits)}

EditInit ==
    /\ pc = "edit_file"
    /\ \E path \in Paths, c \in Contents, present \in BOOLEAN :
          /\ files = IF present THEN Stored(<<>>, path, c) ELSE <<>>
          /\ hist = IF present THEN c ELSE <<>>
          /\ \E edits \in EditCallInputs, mode \in ModeInputs :
                decision = [path |-> path, edits |-> edits, mode |-> mode]
    /\ last_exec = NoExec
    /\ state = create_initial_state(DefaultMaxIterations, FALSE)
    /\ todo_manager = [todo_list |-> <<>>, next_task_id |-> 1]
    /\ has_agent = TRUE
    /\ executed = 0

EditFileCall ==
    /\ pc = "edit_file"
    /\ LET r == edit_file(files, decision.path, decision.edits,
                          decision.mode)
       IN  /\ files' = r.files
           /\ last_exec' = r
    /\ pc' = "edited"
    /\ UNCHANGED <<state, todo_manager, has_agent, decision, executed, hist>>

EditSpec == EditInit /\ [][EditFileCall]_vars

(***************************************************************************)
(* The graph invoked on a state whose iteration_count is any value up to   *)
(* one above MAX_ITERATIONS, so that supervisor_node is also called at and *)
(* over its own cap; the rest is as in a run.                              *)
(***************************************************************************)

CountInit ==
    /\ pc = "initialize"
    /\ \E m \in RunMaxIterationsInputs, messages \in BOOLEAN,
          ic \in IterationCountInputs :
          state = [create_initial_state(m, messages) EXCEPT
                      !.iteration_count = ic]
    /\ todo_manager = [todo_list |-> <<>>, next_task_id |-> 1]
    /\ files = {}
    /\ has_agent = FALSE
    /\ decision = NoDecision
    /\ last_exec = NoExec
    /\ executed = {}
    /\ hist = [first_plan |-> 0, later_created |-> FALSE,
               all_reported |-> TRUE, in_order |-> TRUE]

CountSpec == CountInit /\ [][Next]_vars

(***************************************************************************)
(* should_continue as a function of its argument: the state is drawn from  *)
(* every task list, iteration count, cap and final_result, and the         *)
(* conditional edge of the graph is taken once.                            *)
(***************************************************************************)

ContinueIterationInputs == 0..(RunGraphMaxIterations + 1)

\* final_result unset ("" or None, both falsy) and set.
FinalResultInputs == {"", "All tasks completed successfully."}

ContinueInit ==
    /\ pc = "should_continue"
    /\ \E tl \in TaskLists, ic \in ContinueIterationInputs,
          m \in MaxIterationsInputs, fr \in FinalResultInputs :
          state = [create_initial_state(m, TRUE) EXCEPT
                      !.todo_list = tl,
                      !.completed_tasks = SelectSeq(tl, IsCompleted),
                      !.iteration_count = ic,
                      !.final_result = fr,
                      !.route = "plan"]
    /\ todo_manager = [todo_list |-> <<>>, next_task_id |-> 1]
    /\ files = {}
    /\ has_agent = TRUE
    /\ decision = NoDecision
    /\ last_exec = NoExec
    /\ executed = {}
    /\ hist = [first_plan |-> 0, later_created |-> FALSE,
               all_reported |-> TRUE, in_order |-> TRUE]

ContinueSpec == ContinueInit /\ [][ShouldContinue]_vars

(***************************************************************************)
(* Helpers of the claims.                                                  *)
(***************************************************************************)

\* Status of the ledger's task with this id ("absent" when there is none).
StatusOf(tm, task_id) ==
    LET i == FirstIndex(tm.todo_list, "id", task_id)
    IN  IF i = 0 THEN "absent" ELSE tm.todo_list[i].status

PendingIds(todo_list) ==
    {todo_list[i].id : i \in {j \in 1..Len(todo_list) : IsPending(todo_list[j])}}

\* The ids of the tasks in a list.
IdsOf(todo_list) == {todo_list[i].id : i \in DOMAIN todo_list}

\* The largest of a non-empty set of ids.
MaxId(S) == CHOOSE m \in S : \A n \in S : n <= m

\* The ledger's record of the task with this id (the id is in the ledger).
TaskOf(tm, task_id) ==
    tm.todo_list[FirstIndex(tm.todo_list, "id", task_id)]

\* The least element of a non-empty set of ids.
MinId(S) == CHOOSE x \in S : \A y \in S : x <= y

(***************************************************************************)
(* C1.  Whatever the collaborator does, a run eventually reaches the       *)
(* finalize node and ends, and then final_result is a non-empty string.    *)
(* Checked under FairSpec.  It fails: the state run_workflow builds has no *)
(* "messages" key, so supervisor_node's first pass raises KeyError from    *)
(* its own except clause and the run never reaches finalize.               *)
(***************************************************************************)
C1_RunReachesFinalize == <>(pc = "END" /\ state.final_result # "")

(***************************************************************************)
(* C2.  The iteration_count of a run's final state lies between 1 and the  *)
(* max_iterations the run was started with, whatever the collaborator      *)
(* does.  The final state is the one the finalize node returns.  It fails  *)
(* with C40: the check after the first pass sees an empty list although    *)
(* the plan created tasks, and its second rule loops below iteration 2     *)
(* whatever max_iterations is, so a run started with max_iterations = 1    *)
(* ends at iteration_count 2.                                              *)
(***************************************************************************)
C2_IterationCountWithinCap ==
    pc = "END" =>
        /\ 1 <= state.iteration_count
        /\ state.iteration_count <= state.max_iterations

(***************************************************************************)
(* C3.  Whenever iteration_count >= max_iterations (the value configured   *)
(* at run start), DECIDE returns finalize with no task id, whatever is     *)
(* pending.  It fails: decide_next_action compares with the module         *)
(* constant MAX_ITERATIONS and never reads state["max_iterations"].        *)
(***************************************************************************)
C3_FinalizeAtConfiguredCap ==
    (decision.action # "none"
        /\ state.iteration_count >= state.max_iterations)
    => decision = [action |-> "finalize", next_task_id |-> None]

(***************************************************************************)
(* C4.  With pending tasks in the list, in any list order, and             *)
(* iteration_count below the cap (below both the configured and the        *)
(* hard-coded one), DECIDE returns execute with the smallest pending id.   *)
(* Checked under DecideSpec.  It fails: DECIDE takes the first pending     *)
(* task in list order.                                                     *)
(***************************************************************************)
C4_ExecutesLowestPendingId ==
    (pc = "decided"
        /\ PendingIds(state.todo_list) # {}
        /\ state.iteration_count < MAX_ITERATIONS
        /\ state.iteration_count < state.max_iterations)
    => decision = [action |-> "execute",
                   next_task_id |-> MinId(PendingIds(state.todo_list))]

(***************************************************************************)
(* C5.  After an EXECUTE step in which DECIDE selected task t and the      *)
(* collaborator ran it to a result, t is completed if the result was a     *)
(* success and failed otherwise, and no other task's status changes, also  *)
(* when several tasks share a description.  It fails: task_tool updates    *)
(* the first task of the ledger whose description matches.                 *)
(***************************************************************************)
C5_ExecuteMarksOnlySelectedTask ==
    [][(pc = "supervisor"
          /\ decision'.action = "execute"
          /\ last_exec'.task_id = decision'.next_task_id
          /\ last_exec'.outcome \in {"success", "failure"}
          /\ ~last_exec'.raised)
       => /\ Len(todo_manager'.todo_list) = Len(todo_manager.todo_list)
          /\ \A i \in 1..Len(todo_manager.todo_list) :
                todo_manager'.todo_list[i].status =
                    IF todo_manager.todo_list[i].id = last_exec'.task_id
                    THEN (IF last_exec'.outcome = "success"
                          THEN "completed" ELSE "failed")
                    ELSE todo_manager.todo_list[i].status]_vars

(***************************************************************************)
(* C6.  When the execution of a task reports failure the run goes on: the  *)
(* task is recorded failed, and if tasks are still pending and the         *)
(* iteration cap is not reached, the next iteration executes the next      *)
(* pending task of the ledger.  Stated for states that carry a "messages"  *)
(* list.  It fails with C40: the pass after the failure decides on an      *)
(* emptied list and executes nothing; and with C5: the failure of a task   *)
(* whose description another task shares is recorded on that other task.   *)
(***************************************************************************)
C6_FailureRecordedAndLoopGoesOn ==
    [][(pc = "supervisor" /\ state.messages.present)
       => /\ (last_exec'.outcome = "failure" /\ ~last_exec'.raised)
                => /\ pc' = "execute_task"
                   /\ StatusOf(todo_manager', last_exec'.task_id) = "failed"
          /\ (last_exec.outcome = "failure" /\ ~last_exec.raised
                /\ PendingIds(todo_manager.todo_list) # {}
                /\ state.iteration_count + 1 < MAX_ITERATIONS
                /\ state.iteration_count < state.max_iterations)
                => /\ decision'.action = "execute"
                   /\ decision'.next_task_id
                         = MinId(PendingIds(todo_manager.todo_list))
                   /\ decision'.next_task_id # last_exec.task_id]_vars

(***************************************************************************)
(* C7.  An exception raised by an execution delegation does not leave the  *)
(* loop, and the selected task is recorded failed instead of staying       *)
(* pending.  Stated for states that carry a "messages" list and for a      *)
(* delegation that raised before task_tool wrote any status.  It fails:    *)
(* execute_action turns the exception into success = False and nothing     *)
(* updates the ledger, so the task stays pending.                          *)
(***************************************************************************)
C7_RaisedExecutionRecordedFailed ==
    [][(pc = "supervisor"
          /\ state.messages.present
          /\ last_exec'.task_id # None
          /\ last_exec'.raised
          /\ last_exec'.outcome = "not_run")
       => /\ pc' = "execute_task"
          /\ StatusOf(todo_manager', last_exec'.task_id) = "failed"]_vars

C9_PlannedTasksRunOncePerIteration ==
    (pc = "END"
        /\ hist.first_plan >= 1
        /\ ~hist.later_created
        /\ hist.all_reported
        /\ hist.first_plan + 1 < state.max_iterations)
    => /\ PendingIds(todo_manager.todo_list) = {}
       /\ state.iteration_count = hist.first_plan + 1
       /\ hist.in_order
       /\ executed = 1..hist.first_plan

(***************************************************************************)
(* C10.  With iteration_count below the cap (the max_iterations the run    *)
(* was configured with), DECIDE returns plan exactly when the list is      *)
(* empty and iteration_count = 1; in every other state below the cap it    *)
(* returns execute when some task is pending and finalize when none is.    *)
(* Checked under DecideSpec.  It fails with C3: with max_iterations above  *)
(* MAX_ITERATIONS, DECIDE returns finalize from iteration MAX_ITERATIONS   *)
(* on, also while a task is pending.                                       *)
(***************************************************************************)
C10_PlanExactlyOnFirstEmptyPass ==
    (pc = "decided" /\ state.iteration_count < state.max_iterations)
    => /\ decision.action = "plan"
            <=> (Len(state.todo_list) = 0 /\ state.iteration_count = 1)
       /\ decision.action # "plan"
            => decision.action = (IF PendingIds(state.todo_list) # {}
                                  THEN "execute" ELSE "finalize")

(***************************************************************************)
(* C11.  decide_next_action applied to a freshly created initial state     *)
(* (empty list, iteration_count 0) returns plan with no task id.  Checked  *)
(* under DecideSpec.  It fails: the plan branch requires                   *)
(* iteration_count = 1, so the fresh state falls through to finalize.      *)
(***************************************************************************)
C11_FreshStatePlans ==
    (pc = "decided"
        /\ state.todo_list = <<>>
        /\ state.iteration_count = 0)
    => decision = [action |-> "plan", next_task_id |-> None]

(***************************************************************************)
(* C12.  The loop-continuation check applies its rules in this order: end  *)
(* if final_result is set; else, on an empty list, loop when               *)
(* iteration_count < 2 and end otherwise; else end if no task is pending;  *)
(* else end if iteration_count >= max_iterations; otherwise loop.  So it   *)
(* loops exactly when final_result is unset and either the list is empty   *)
(* with iteration_count < 2, or a task is pending with iteration_count     *)
(* below max_iterations.  Checked under ContinueSpec.                      *)
(***************************************************************************)
C12_ContinuationRulesInOrder ==
    [][pc = "should_continue"
       => pc' = IF /\ state.final_result = ""
                   /\ \/ state.todo_list = <<>> /\ state.iteration_count < 2
                      \/ /\ PendingIds(state.todo_list) # {}
                         /\ state.iteration_count < state.max_iterations
                THEN "supervisor" ELSE "finalize"]_vars

\* The check has looped on an empty list at an iteration count above the cap.
C12_LoopedOnEmptyListAboveCap ==
    /\ pc = "supervisor"
    /\ state.todo_list = <<>>
    /\ state.iteration_count = 1
    /\ state.max_iterations = 1

(***************************************************************************)
(* C13.  In a run whose first iteration's planning delegation creates no   *)
(* task, DECIDE is evaluated again with iteration_count = 2 before the run *)
(* ends: no run ends at iteration_count 1 after a planning delegation that *)
(* created nothing.  Stated for runs whose max_iterations allows a second  *)
(* iteration.  It fails: with no task pending after the plan,              *)
(* supervisor_node sets final_result, and should_continue ends the run on  *)
(* its first rule.                                                         *)
(***************************************************************************)
C13_EmptyPlanGetsSecondIteration ==
    (pc = "END"
        /\ state.max_iterations >= 2
        /\ decision.action = "plan"
        /\ hist.first_plan = 0)
    => state.iteration_count >= 2

(***************************************************************************)
(* C14.  The artifacts attached to an executed task are exactly the paths  *)
(* listed by the file system right after the collaborator's call that were *)
(* not listed right before it.  It fails with C15 (a subagent that raises  *)
(* after writing a file leaves the task without artifacts) and with C5     *)
(* (the artifacts go to the first task of that description).               *)
(***************************************************************************)
C14_ArtifactsAreListingDelta ==
    [][(pc = "supervisor"
          /\ last_exec'.task_id # None
          /\ last_exec'.outcome # "not_run")
       => TaskOf(todo_manager', last_exec'.task_id).artifacts
            = files' \ files]_vars

(***************************************************************************)
(* C15.  When the execution of a task fails after the collaborator has     *)
(* created files, also when it fails by a raised exception, the task is    *)
(* recorded failed and its artifacts contain the files created before the  *)
(* failure.  It fails: the except clause of run_subagent reports no        *)
(* artifacts.                                                              *)
(***************************************************************************)
C15_FailedTaskKeepsCreatedFiles ==
    [][(pc = "supervisor"
          /\ last_exec'.task_id # None
          /\ last_exec'.outcome \in {"failure", "error"})
       => /\ StatusOf(todo_manager', last_exec'.task_id) = "failed"
          /\ (files' \ files)
                \subseteq TaskOf(todo_manager', last_exec'.task_id).artifacts
      ]_vars

(***************************************************************************)
(* C16.  After EXECUTE the executed task's record in the ledger carries    *)
(* the artifact delta and the collaborator's free-text result.  It fails:  *)
(* update_task_with_artifacts writes the status and the artifacts only,    *)
(* and nothing else writes a result into the ledger.                       *)
(***************************************************************************)
C16_LedgerRecordCarriesResult ==
    [][(pc = "supervisor"
          /\ last_exec'.task_id # None
          /\ last_exec'.outcome = "success")
       => /\ TaskOf(todo_manager', last_exec'.task_id).artifacts
                = files' \ files
          /\ TaskResult(TaskOf(todo_manager', last_exec'.task_id)) # ""
      ]_vars

(***************************************************************************)
(* C17.  When a run ends with a failed task in the ledger, final_result    *)
(* lists it.  It fails: when no pending task is left after a pass          *)
(* supervisor_node writes the fixed text "All tasks completed              *)
(* successfully." and the run ends on it; the summary with a section of    *)
(* failed tasks is built only when DECIDE returns finalize on a list that  *)
(* holds the failed task.                                                  *)
(***************************************************************************)
C17_FinalResultListsFailedTasks ==
    (pc = "END"
       /\ \E i \in DOMAIN todo_manager.todo_list :
              IsFailed(todo_manager.todo_list[i]))
    => FailedTasksSection(state.final_result)

(***************************************************************************)
(* C18.  Once final_result is set, no later step of the run changes        *)
(* todo_list, completed_tasks, iteration_count or final_result, and no     *)
(* delegation changes the ledger.  It fails: the graph runs execute_task   *)
(* and update_state after the supervisor node that set final_result;       *)
(* execute_task_node delegates a plan, which adds tasks to the ledger, and *)
(* both nodes overwrite the state's todo_list and completed_tasks.         *)
(***************************************************************************)
C18_StateFrozenOnceFinalResultSet ==
    [][state.final_result # ""
       => /\ state'.todo_list = state.todo_list
          /\ state'.completed_tasks = state.completed_tasks
          /\ state'.iteration_count = state.iteration_count
          /\ state'.final_result = state.final_result
          /\ todo_manager' = todo_manager]_vars

(***************************************************************************)
(* C19.  A run sees only the tasks and the files created within it.        *)
(* Stated at a run's first pass through the supervisor node, before which  *)
(* the run has delegated nothing: every task in the ledger and every file  *)
(* in the file system at that moment is another run's, so none of those    *)
(* tasks may be in the todo_list the pass writes and no file may be        *)
(* listed.  It fails for the second run of a process: the ledger and the   *)
(* file system are process-wide and keep what the first run left.          *)
(***************************************************************************)
C19_RunSeesOnlyItsOwnTasksAndFiles ==
    [][(pc = "supervisor" /\ state.iteration_count = 0)
       => /\ \A i \in DOMAIN state'.todo_list :
                \A j \in DOMAIN todo_manager.todo_list :
                   state'.todo_list[i].id # todo_manager.todo_list[j].id
          /\ files = {}]_vars

(***************************************************************************)
(* C20.  On one ledger, under any sequence of create_tasks, add_task,      *)
(* update_task_status and clear_completed_tasks, the ids given to tasks    *)
(* strictly increase in creation order (so every task ever created has its *)
(* own id and the id of a removed task is not given again), and the tasks  *)
(* in the list carry ids that were given, each once.                       *)
(***************************************************************************)
C20_IdsIncreaseAndAreNeverReused ==
    pc = "ledger" =>
       /\ \A i, j \in DOMAIN hist : i < j => hist[i] < hist[j]
       /\ \A i \in DOMAIN todo_manager.todo_list :
             /\ \E k \in DOMAIN hist :
                   hist[k] = todo_manager.todo_list[i].id
             /\ \A j \in DOMAIN todo_manager.todo_list :
                   i < j => todo_manager.todo_list[i].id
                               < todo_manager.todo_list[j].id

\* A task was created after an earlier task had been removed, on a list
\* shorter than the new task's id.
C20_CreatedAfterRemoval ==
    /\ pc = "ledger"
    /\ \E i, j \in DOMAIN hist :
          /\ i < j
          /\ \A k \in DOMAIN todo_manager.todo_list :
                todo_manager.todo_list[k].id # hist[i]
          /\ \E k \in DOMAIN todo_manager.todo_list :
                todo_manager.todo_list[k].id = hist[j]
          /\ Len(todo_manager.todo_list) < hist[j]

(***************************************************************************)
(* C21.  As claimed: on a non-empty ledger next_task_id is the largest id  *)
(* in the ledger plus one.  It fails when clear_completed_tasks removes    *)
(* the task created last: next_task_id stays, which is what keeps ids from *)
(* being given twice.                                                      *)
(***************************************************************************)
C21_NextIdIsMaxExistingPlusOne ==
    (pc = "ledger" /\ todo_manager.todo_list # <<>>)
    => todo_manager.next_task_id = MaxId(IdsOf(todo_manager.todo_list)) + 1

(***************************************************************************)
(* C21, as the code has it: next_task_id is one above the largest id ever  *)
(* given (1 before any task is created); on a non-empty ledger it is above *)
(* every id in the ledger, and it is the largest of them plus one exactly  *)
(* when the task created last is still in the ledger.                      *)
(***************************************************************************)
C21_NextIdIsLastGivenPlusOne ==
    pc = "ledger" =>
       /\ todo_manager.next_task_id
             = IF hist = <<>> THEN 1 ELSE hist[Len(hist)] + 1
       /\ todo_manager.todo_list # <<>> =>
             /\ todo_manager.next_task_id
                   > MaxId(IdsOf(todo_manager.todo_list))
             /\ (todo_manager.next_task_id
                    = MaxId(IdsOf(todo_manager.todo_list)) + 1)
                 <=> hist[Len(hist)] \in IdsOf(todo_manager.todo_list)

\* The task created last has been removed and an earlier one is left.
C21_LastCreatedRemoved ==
    /\ pc = "ledger"
    /\ todo_manager.todo_list # <<>>
    /\ hist # <<>>
    /\ hist[Len(hist)] \notin IdsOf(todo_manager.todo_list)
    /\ last_exec.op = "clear_completed_tasks"

(***************************************************************************)
(* C22.  At most one task of the ledger has status in_progress.  It fails: *)
(* update_task_status checks that the status is a valid one and writes it, *)
(* whatever the other tasks' statuses are.                                 *)
(***************************************************************************)
C22_AtMostOneInProgress ==
    pc = "ledger" =>
       \A i, j \in DOMAIN todo_manager.todo_list :
          (/\ todo_manager.todo_list[i].status = "in_progress"
           /\ todo_manager.todo_list[j].status = "in_progress") => i = j

(***************************************************************************)
(* C23.  A task whose status has left pending is never pending again,      *)
(* whatever ledger operation is called.  It fails: update_task_status and  *)
(* update_task_with_artifacts accept "pending" for a task in any status,   *)
(* and update_todo_tool passes it on.                                      *)
(***************************************************************************)
C23_NeverBackToPending ==
    [][pc = "ledger" =>
          \A task_id \in IdsOf(todo_manager.todo_list) :
             StatusOf(todo_manager, task_id) # "pending"
             => StatusOf(todo_manager', task_id) # "pending"]_vars

(***************************************************************************)
(* C24.  A status update that fails leaves the ledger as it was.  On every *)
(* reachable ledger, for every id and status: a status outside the four    *)
(* valid ones gives ValueError, a valid status with an unknown id gives    *)
(* None, update_todo_tool reports success = False in both cases, and       *)
(* neither update_task_status, update_task_with_artifacts nor the tool     *)
(* changes any task.                                                       *)
(***************************************************************************)
C24_FailedUpdateChangesNothing ==
    pc = "ledger" =>
       \A task_id \in 1..(MaxCreated + 1), new_status \in StatusInputs :
          LET returns == UpdateReturns(todo_manager, task_id, new_status)
              tool == update_todo_tool(todo_manager, "update_status",
                                       task_id, <<>>, new_status)
          IN  /\ new_status \notin Statuses => returns = "ValueError"
              /\ (new_status \in Statuses
                    /\ task_id \notin IdsOf(todo_manager.todo_list))
                 => returns = "None"
              /\ returns # "task" =>
                    /\ update_task_status(todo_manager, task_id, new_status)
                          = todo_manager
                    /\ \A artifacts \in SUBSET Paths :
                          update_task_with_artifacts(
                             todo_manager, task_id, new_status, artifacts)
                          = todo_manager
                    /\ tool = [success |-> FALSE,
                               todo_manager |-> todo_manager]

\* An update with an invalid status has just been refused on a ledger that
\* holds a task.
C24_InvalidStatusRefused ==
    /\ pc = "ledger"
    /\ todo_manager.todo_list # <<>>
    /\ last_exec.op \in {"update_task_status", "update_task_with_artifacts"}
    /\ last_exec.returns = "ValueError"

C26_ExplicitToolsAreAssigned ==
    [][(pc = "create" /\ decision'.assigned_tools # <<>>)
       => last_exec'.assigned_tools = decision'.assigned_tools]_vars

(***************************************************************************)
(* C27.  The context built for task id k holds, as completed_tasks, the    *)
(* ledger's tasks that are completed and have an id below k, each once and *)
(* no other task; as available_files every path of the file system; and    *)
(* the objective of the state.                                             *)
(***************************************************************************)
C27_ContextHoldsEarlierCompletedTasks ==
    pc = "built" =>
       LET k == decision.current_task_id
           listed == {last_exec.completed_tasks[i].id :
                         i \in DOMAIN last_exec.completed_tasks}
       IN  /\ listed = {task_id \in IdsOf(todo_manager.todo_list) :
                           /\ StatusOf(todo_manager, task_id) = "completed"
                           /\ task_id < k}
           /\ Len(last_exec.completed_tasks) = Cardinality(listed)
           /\ \A i \in DOMAIN last_exec.completed_tasks :
                 LET entry == last_exec.completed_tasks[i]
                 IN  /\ entry.task = TaskOf(todo_manager, entry.id).task
                     /\ entry.artifacts
                           = TaskOf(todo_manager, entry.id).artifacts
           /\ last_exec.available_files = files
           /\ last_exec.objective = state.objective

\* A context was built, with files in the file system, for a task id with a
\* completed task below it and a completed task not below it.
C27_ContextLeftLaterTaskOut ==
    /\ pc = "built"
    /\ Len(last_exec.completed_tasks) = 1
    /\ Len(state.completed_tasks) = 2
    /\ files # {}

\* C28: write(p, c) followed by read(p) returns exactly c, whether p was
\* absent (reported created) or present (reported overwritten); the
\* overwrite fully replaces the old content and touches no other path, so
\* writing the same (p, c) again leaves the store as it is.
C28_WriteReadRoundTrip ==
    [][LET w == last_exec'
       IN  (w.op = "write_file" /\ w.raises = "None") =>
              /\ read_file(files', w.path)
                    = [raises |-> "None", content |-> w.content]
              /\ w.status = (IF w.path \in DOMAIN files THEN "overwritten"
                             ELSE "created")
              /\ write_file(files', w.path, w.content).files = files'
              /\ write_file(files', w.path, w.content).status
                    = "overwritten"
              /\ DOMAIN files' = DOMAIN files \cup {w.path}
              /\ \A p \in DOMAIN files \ {w.path} : files'[p] = files[p]
      ]_vars

\* C28 witness: a write over a path that was present, reported overwritten,
\* with a non-empty content that a read gives back.
C28_OverwroteNonEmpty ==
    /\ last_exec.op = "write_file"
    /\ last_exec.status = "overwritten"
    /\ last_exec.content # <<>>
    /\ read_file(files, last_exec.path).content = last_exec.content

\* C29: edit on a path that is not in the store is an error in every mode
\* and with either kind of edits, and never creates the path: the store's
\* paths and contents are unchanged.
C29_EditAbsentPathChangesNothing ==
    [][LET e == last_exec'
       IN  (e.op = "edit_file" /\ e.path \notin DOMAIN files) =>
              /\ e.success = FALSE
              /\ files' = files
      ]_vars

\* C29 witness: an append to a path the non-empty store does not hold was
\* refused.
C29_AppendToAbsentRefused ==
    /\ last_exec.op = "edit_file"
    /\ last_exec.status = "append"
    /\ last_exec.path # ""
    /\ last_exec.path \notin DOMAIN files
    /\ last_exec.success = FALSE
    /\ files # <<>>

\* C30: edit_file on a path that does not exist raises FileNotFoundError,
\* as read_file, get_file_info and delete_file do for that path.
C30_EditAbsentRaisesFileNotFound ==
    [][LET e == last_exec'
       IN  (e.op = "edit_file" /\ e.path # ""
               /\ e.path \notin DOMAIN files) =>
              /\ read_file(files, e.path).raises = "FileNotFoundError"
              /\ get_file_info(files, e.path).raises = "FileNotFoundError"
              /\ delete_file(files, e.path).raises = "FileNotFoundError"
              /\ e.raises = "FileNotFoundError"
      ]_vars

\* The number of positions of the content that hold the character of find.
Occurrences(content, find_str) ==
    Cardinality({i \in 1..Len(content) : <<content[i]>> = find_str})

\* The content with every position that holds the character of find given
\* the replacement: a character in its place, or the position dropped.
ReplacedAll(content, find_str, replace_str) ==
    IF replace_str = <<>>
    THEN LET Kept(ch) == <<ch>> # find_str IN SelectSeq(content, Kept)
    ELSE [i \in 1..Len(content) |->
             IF <<content[i]>> = find_str THEN replace_str[1]
             ELSE content[i]]

RECURSIVE ContentAfter(_, _, _)
\* The content after the first k pairs, each applied to what the pairs
\* before it produced.
ContentAfter(original, pairs, k) ==
    IF k = 0 THEN original
    ELSE ReplacedAll(ContentAfter(original, pairs, k - 1),
                     pairs[k].find, pairs[k].replace)

\* The occurrences pair k finds when its turn comes.
FoundBy(original, pairs, k) ==
    Occurrences(ContentAfter(original, pairs, k - 1), pairs[k].find)

RECURSIVE SumFound(_, _, _)
\* The occurrences found by the first k pairs, added up.
SumFound(original, pairs, k) ==
    IF k = 0 THEN 0
    ELSE SumFound(original, pairs, k - 1) + FoundBy(original, pairs, k)

\* edit_file has returned success from a find_replace over a list of pairs.
FindReplaceDone ==
    /\ pc = "edited"
    /\ ~decision.edits.is_str
    /\ decision.mode \in {"find_replace", "auto"}
    /\ last_exec.success

C32_ZeroOccurrencePairReported ==
    FindReplaceDone =>
        LET pairs == decision.edits.pairs
        IN  \A k \in 1..Len(pairs) :
               FoundBy(hist, pairs, k) = 0 =>
                  /\ ContentAfter(hist, pairs, k)
                        = ContentAfter(hist, pairs, k - 1)
                  /\ \E j \in 1..Len(last_exec.changes) :
                        /\ last_exec.changes[j].find = pairs[k].find
                        /\ last_exec.changes[j].occurrences = 0

\* C32 as it holds: a pair whose find text has zero occurrences leaves the
\* content unchanged and adds nothing to the total; the list of changes has
\* one entry, in list order, for each pair that found something, with its
\* count, and no entry for a pair that found nothing.
C32_ZeroOccurrencePairLeftOut ==
    FindReplaceDone =>
        LET pairs == decision.edits.pairs
            entry(k) == [find |-> pairs[k].find,
                         replace |-> pairs[k].replace,
                         occurrences |-> FoundBy(hist, pairs, k)]
            Found(e) == e.occurrences > 0
        IN  /\ last_exec.changes
                  = SelectSeq([k \in 1..Len(pairs) |-> entry(k)], Found)
            /\ (\A k \in 1..Len(pairs) : FoundBy(hist, pairs, k) = 0) =>
                  /\ files[decision.path] = hist
                  /\ last_exec.total_replacements = 0
                  /\ last_exec.changes = <<>>

\* C32 witness: a single pair found nothing in a non-empty content; the
\* content is as it was and the list of changes is empty.
C32_NothingFoundNothingListed ==
    /\ FindReplaceDone
    /\ Len(decision.edits.pairs) = 1
    /\ hist # <<>>
    /\ FoundBy(hist, decision.edits.pairs, 1) = 0
    /\ files[decision.path] = hist
    /\ last_exec.changes = <<>>
    /\ last_exec.total_replacements = 0

\* C33: list() returns the stored paths in insertion order after any
\* sequence of write, edit, delete and clear: a path overwritten or edited
\* keeps its position, a new path goes last (a path deleted and written
\* again included), a deleted path is no longer listed, after clear the
\* list is empty, and the list always holds each stored path once.
C33_ListInInsertionOrder ==
    [][LET e == last_exec'
           before == list_files(hist)
           after == list_files(hist')
           Other(p) == p # e.path
       IN  /\ Len(after) = Cardinality(DOMAIN files')
           /\ {after[i] : i \in 1..Len(after)} = DOMAIN files'
           /\ (e.op = "write_file" /\ e.raises = "None") =>
                 after = IF e.path \in DOMAIN files THEN before
                         ELSE Append(before, e.path)
           /\ (e.op = "delete_file" /\ e.raises = "None") =>
                 after = SelectSeq(before, Other)
           /\ e.op = "clear_all" => after = <<>>
           /\ (e.op \in {"edit_file", "read_file", "get_file_info"}
                  \/ e.raises # "None") => after = before
      ]_vars

\* C33 witness: two paths are listed, the one written last in second place
\* although it comes first in lexical order.
C33_LaterWrittenPathListedLast ==
    /\ last_exec.op = "write_file"
    /\ last_exec.status = "created"
    /\ last_exec.path = "data.txt"
    /\ list_files(hist) = <<"notes.txt", "data.txt">>

\* C39: every edit call that reports failure leaves the store unchanged,
\* in every mode and with either type of edits; the content of every path
\* stays a string.
C39_FailedEditChangesNothing ==
    [][LET e == last_exec'
       IN  (e.op = "edit_file" /\ ~e.success) =>
              /\ files' = files
              /\ \A p \in DOMAIN files' : files'[p] # ListContent
      ]_vars

C35_SupervisorNodeNeverRaises ==
    [][pc = "supervisor" =>
          /\ pc' # "raised"
          /\ (~has_agent /\ ~has_agent') =>
                /\ state'.final_result = "Supervisor error"
                /\ state'.messages.n = state.messages.n + 1
      ]_vars

\* C37: iteration_count starts at 0, is increased by exactly 1 by every
\* call of supervisor_node (a call that hits the iteration cap or fails
\* inside included), is changed by no other step of the loop, and never
\* decreases.
C37_IterationCountStepsByOne ==
    [][/\ \A m \in MaxIterationsInputs, messages \in BOOLEAN :
             create_initial_state(m, messages).iteration_count = 0
       /\ pc = "supervisor" =>
             state'.iteration_count = state.iteration_count + 1
       /\ pc # "supervisor" =>
             state'.iteration_count = state.iteration_count
       /\ state'.iteration_count >= state.iteration_count
      ]_vars

\* C37 witness: a call of supervisor_node at the cap of the module counted
\* and ended the work.
C37_CountedOverTheCap ==
    /\ pc = "execute_task"
    /\ state.iteration_count = MAX_ITERATIONS + 1
    /\ state.final_result = "Maximum iterations reached"

\* C40: whenever the loop-continuation check is evaluated, the state's
\* todo_list is the ledger's full task list and the state's completed_tasks
\* is the ledger's tasks with status completed.  The ledger is the one the
\* tools write to.  It fails: update_state_node copies the list of the
\* todo_manager that workflow.py imports, which no tool writes to, so the
\* check sees an empty list whatever the ledger holds.
C40_ContinuationSeesTheLedger ==
    pc = "should_continue" =>
        /\ state.todo_list = get_all_tasks(todo_manager)
        /\ state.completed_tasks
              = SelectSeq(get_all_tasks(todo_manager), IsCompleted)

\* C38: in every ledger state reachable through create_tasks, add_task,
\* status updates and clear_completed_tasks the list is ordered by strictly
\* increasing id, so the first pending task in list order, which DECIDE
\* takes from a state that holds the ledger's list, is the pending task with
\* the lowest id.  Checked under LedgerSpec.
C38_LedgerOrderedById ==
    pc = "ledger" =>
        LET todo_list == get_all_tasks(todo_manager)
            st == SyncWithTodoManager(
                      [state EXCEPT !.iteration_count = 1], todo_manager)
        IN  /\ \A i, j \in DOMAIN todo_list :
                   i < j => todo_list[i].id < todo_list[j].id
            /\ PendingIds(todo_list) # {}
                  => decide_next_action(st)
                       = [action |-> "execute",
                          next_task_id |-> MinId(PendingIds(todo_list))]

\* C38 witness: after a status update the ledger's first task is not
\* pending and a later one is.
C38_FirstPendingNotAtHead ==
    /\ pc = "ledger"
    /\ Len(todo_manager.todo_list) = 2
    /\ todo_manager.todo_list[1].status = "failed"
    /\ todo_manager.todo_list[2].status = "pending"

\* C36: every entry of the state's completed_tasks has status completed,
\* after any sequence of supervisor steps (supervisor_node,
\* update_state_node) and task-executor steps.  Checked under ExecutorSpec.
\* It fails: the task executor appends the entry of a failed task to
\* completed_tasks, with status failed.
C36_CompletedTasksAreCompleted ==
    \A i \in DOMAIN state.completed_tasks :
        state.completed_tasks[i].status = "completed"

====
